---- MODULE Spec2Model ----
(***************************************************************************)
(* Reconciliation engine of demo-process-observability                     *)
(* (src/src/demo/pipeline/reconciliation.py): matching of per-run          *)
(* instances against the persistent workflow store, evidence / timestamp   *)
(* merging, workflow-id derivation and positional step inference; and the  *)
(* stage before it: the text normalizer and canonicalizers                 *)
(* (src/src/demo/catalog/normalize.py, canonicalize.py) and the instance   *)
(* enricher (src/src/demo/pipeline/stage3_postprocess.py), the catalog     *)
(* loader (src/src/demo/catalog/loader.py) and the store writer            *)
(* (src/src/demo/utils/json_utils.py).                                     *)
(*                                                                         *)
(* Python strings are TLA+ strings.  Where the code looks inside a string  *)
(* (lower(), split(), substring tests, SequenceMatcher) the string is      *)
(* taken to its sequence of code points by the table CodePoints, and the   *)
(* algorithm runs on that sequence.                                        *)
(***************************************************************************)
EXTENDS Integers, Sequences, FiniteSets, TLC

\* Python None, and the result of dict.get on a missing key.
None == "<None>"

\* Truth value of an optional string: None and "" are falsy.
Truthy(v) == v # None /\ v # ""

\* `a or b` on optional strings.
Or(a, b) == IF Truthy(a) THEN a ELSE b

\* str(v) / f"{v}" of an optional string.
Str(v) == IF v = None THEN "None" ELSE v

(***************************************************************************)
(* Tables over the finite universe of strings.                             *)
(***************************************************************************)

\* Code points of the strings whose characters the engine inspects.
CodePoints ==
    ("" :> <<>>)
    @@ ("AI Engineer - Altum - unknown" :> <<65, 73, 32, 69, 110, 103, 105, 110, 101, 101, 114, 32, 45, 32, 65, 108, 116, 117, 109, 32, 45, 32, 117, 110, 107, 110, 111, 119, 110>>)
    @@ ("Unknown Role - Altum - recruiting" :> <<85, 110, 107, 110, 111, 119, 110, 32, 82, 111, 108, 101, 32, 45, 32, 65, 108, 116, 117, 109, 32, 45, 32, 114, 101, 99, 114, 117, 105, 116, 105, 110, 103>>)
    @@ ("AI Engineer - Unknown Client - recruiting" :> <<65, 73, 32, 69, 110, 103, 105, 110, 101, 101, 114, 32, 45, 32, 85, 110, 107, 110, 111, 119, 110, 32, 67, 108, 105, 101, 110, 116, 32, 45, 32, 114, 101, 99, 114, 117, 105, 116, 105, 110, 103>>)
    @@ ("Unknown Role - Unknown Client - recruiting" :> <<85, 110, 107, 110, 111, 119, 110, 32, 82, 111, 108, 101, 32, 45, 32, 85, 110, 107, 110, 111, 119, 110, 32, 67, 108, 105, 101, 110, 116, 32, 45, 32, 114, 101, 99, 114, 117, 105, 116, 105, 110, 103>>)
    @@ ("Unknown Role - Altum - unknown" :> <<85, 110, 107, 110, 111, 119, 110, 32, 82, 111, 108, 101, 32, 45, 32, 65, 108, 116, 117, 109, 32, 45, 32, 117, 110, 107, 110, 111, 119, 110>>)
    @@ ("AI Engineer - Unknown Client - unknown" :> <<65, 73, 32, 69, 110, 103, 105, 110, 101, 101, 114, 32, 45, 32, 85, 110, 107, 110, 111, 119, 110, 32, 67, 108, 105, 101, 110, 116, 32, 45, 32, 117, 110, 107, 110, 111, 119, 110>>)
    @@ ("  " :> <<32, 32>>)
    @@ ("  Step   2 " :> <<32, 32, 83, 116, 101, 112, 32, 32, 32, 50, 32>>)
    @@ ("---" :> <<45, 45, 45>>)
    @@ ("???" :> <<63, 63, 63>>)
    @@ ("ACME" :> <<65, 67, 77, 69>>)
    @@ ("AI Engineer" :> <<65, 73, 32, 69, 110, 103, 105, 110, 101, 101, 114>>)
    @@ ("AI Engineer - Altum - recruiting" :> <<65, 73, 32, 69, 110, 103, 105, 110, 101, 101, 114, 32, 45, 32, 65, 108, 116, 117, 109, 32, 45, 32, 114, 101, 99, 114, 117, 105, 116, 105, 110, 103>>)
    @@ ("AI Engineer Lead" :> <<65, 73, 32, 69, 110, 103, 105, 110, 101, 101, 114, 32, 76, 101, 97, 100>>)
    @@ ("AI Engineer Lead - Altum - recruiting" :> <<65, 73, 32, 69, 110, 103, 105, 110, 101, 101, 114, 32, 76, 101, 97, 100, 32, 45, 32, 65, 108, 116, 117, 109, 32, 45, 32, 114, 101, 99, 114, 117, 105, 116, 105, 110, 103>>)
    @@ ("Account Setup" :> <<65, 99, 99, 111, 117, 110, 116, 32, 83, 101, 116, 117, 112>>)
    @@ ("Acme And Altum" :> <<65, 99, 109, 101, 32, 65, 110, 100, 32, 65, 108, 116, 117, 109>>)
    @@ ("Acme Inc" :> <<65, 99, 109, 101, 32, 73, 110, 99>>)
    @@ ("Altum" :> <<65, 108, 116, 117, 109>>)
    @@ ("BLOCKED" :> <<66, 76, 79, 67, 75, 69, 68>>)
    @@ ("Blocked" :> <<66, 108, 111, 99, 107, 101, 100>>)
    @@ ("Client Onboarding" :> <<67, 108, 105, 101, 110, 116, 32, 79, 110, 98, 111, 97, 114, 100, 105, 110, 103>>)
    @@ ("Client-Onboarding" :> <<67, 108, 105, 101, 110, 116, 45, 79, 110, 98, 111, 97, 114, 100, 105, 110, 103>>)
    @@ ("Delivery" :> <<68, 101, 108, 105, 118, 101, 114, 121>>)
    @@ ("Designer" :> <<68, 101, 115, 105, 103, 110, 101, 114>>)
    @@ ("Done" :> <<68, 111, 110, 101>>)
    @@ ("GLX" :> <<71, 76, 88>>)
    @@ ("Globex" :> <<71, 108, 111, 98, 101, 120>>)
    @@ ("Globex Corp" :> <<71, 108, 111, 98, 101, 120, 32, 67, 111, 114, 112>>)
    @@ ("Hiring" :> <<72, 105, 114, 105, 110, 103>>)
    @@ ("Hiring!" :> <<72, 105, 114, 105, 110, 103, 33>>)
    @@ ("Kick-Off" :> <<75, 105, 99, 107, 45, 79, 102, 102>>)
    @@ ("Kickoff Call" :> <<75, 105, 99, 107, 111, 102, 102, 32, 67, 97, 108, 108>>)
    @@ ("Lead AI Engineer" :> <<76, 101, 97, 100, 32, 65, 73, 32, 69, 110, 103, 105, 110, 101, 101, 114>>)
    @@ ("Lead AI Engineer - Altum - hiring" :> <<76, 101, 97, 100, 32, 65, 73, 32, 69, 110, 103, 105, 110, 101, 101, 114, 32, 45, 32, 65, 108, 116, 117, 109, 32, 45, 32, 104, 105, 114, 105, 110, 103>>)
    @@ ("Lead AI Engineer - Altum - recruiting" :> <<76, 101, 97, 100, 32, 65, 73, 32, 69, 110, 103, 105, 110, 101, 101, 114, 32, 45, 32, 65, 108, 116, 117, 109, 32, 45, 32, 114, 101, 99, 114, 117, 105, 116, 105, 110, 103>>)
    @@ ("ML Engineer" :> <<77, 76, 32, 69, 110, 103, 105, 110, 101, 101, 114>>)
    @@ ("New Client Co" :> <<78, 101, 119, 32, 67, 108, 105, 101, 110, 116, 32, 67, 111>>)
    @@ ("Offer Sent" :> <<79, 102, 102, 101, 114, 32, 83, 101, 110, 116>>)
    @@ ("Ops" :> <<79, 112, 115>>)
    @@ ("Other" :> <<79, 116, 104, 101, 114>>)
    @@ ("PM" :> <<80, 77>>)
    @@ ("PM - Globex - delivery" :> <<80, 77, 32, 45, 32, 71, 108, 111, 98, 101, 120, 32, 45, 32, 100, 101, 108, 105, 118, 101, 114, 121>>)
    @@ ("Product Manager" :> <<80, 114, 111, 100, 117, 99, 116, 32, 77, 97, 110, 97, 103, 101, 114>>)
    @@ ("Recruiting" :> <<82, 101, 99, 114, 117, 105, 116, 105, 110, 103>>)
    @@ ("Role" :> <<82, 111, 108, 101>>)
    @@ ("Role Details" :> <<82, 111, 108, 101, 32, 68, 101, 116, 97, 105, 108, 115>>)
    @@ ("Role-Details" :> <<82, 111, 108, 101, 45, 68, 101, 116, 97, 105, 108, 115>>)
    @@ ("Sourcing" :> <<83, 111, 117, 114, 99, 105, 110, 103>>)
    @@ ("Step" :> <<83, 116, 101, 112>>)
    @@ ("Step 1" :> <<83, 116, 101, 112, 32, 49>>)
    @@ ("Step 2" :> <<83, 116, 101, 112, 32, 50>>)
    @@ ("Step 3" :> <<83, 116, 101, 112, 32, 51>>)
    @@ ("Talent" :> <<84, 97, 108, 101, 110, 116>>)
    @@ ("Unknown" :> <<85, 110, 107, 110, 111, 119, 110>>)
    @@ ("Unknown Role - Unknown Client - hiring" :> <<85, 110, 107, 110, 111, 119, 110, 32, 82, 111, 108, 101, 32, 45, 32, 85, 110, 107, 110, 111, 119, 110, 32, 67, 108, 105, 101, 110, 116, 32, 45, 32, 104, 105, 114, 105, 110, 103>>)
    @@ ("Unknown Role - Unknown Client - unknown" :> <<85, 110, 107, 110, 111, 119, 110, 32, 82, 111, 108, 101, 32, 45, 32, 85, 110, 107, 110, 111, 119, 110, 32, 67, 108, 105, 101, 110, 116, 32, 45, 32, 117, 110, 107, 110, 111, 119, 110>>)
    @@ ("acme" :> <<97, 99, 109, 101>>)
    @@ ("acme and altum" :> <<97, 99, 109, 101, 32, 97, 110, 100, 32, 97, 108, 116, 117, 109>>)
    @@ ("acme inc" :> <<97, 99, 109, 101, 32, 105, 110, 99>>)
    @@ ("ai eng" :> <<97, 105, 32, 101, 110, 103>>)
    @@ ("ai engineer" :> <<97, 105, 32, 101, 110, 103, 105, 110, 101, 101, 114>>)
    @@ ("altum" :> <<97, 108, 116, 117, 109>>)
    @@ ("altum.ai" :> <<97, 108, 116, 117, 109, 46, 97, 105>>)
    @@ ("blocked" :> <<98, 108, 111, 99, 107, 101, 100>>)
    @@ ("build" :> <<98, 117, 105, 108, 100>>)
    @@ ("call" :> <<99, 97, 108, 108>>)
    @@ ("client-onboarding" :> <<99, 108, 105, 101, 110, 116, 45, 111, 110, 98, 111, 97, 114, 100, 105, 110, 103>>)
    @@ ("client_onboarding" :> <<99, 108, 105, 101, 110, 116, 95, 111, 110, 98, 111, 97, 114, 100, 105, 110, 103>>)
    @@ ("completed" :> <<99, 111, 109, 112, 108, 101, 116, 101, 100>>)
    @@ ("completed role details yesterday" :> <<99, 111, 109, 112, 108, 101, 116, 101, 100, 32, 114, 111, 108, 101, 32, 100, 101, 116, 97, 105, 108, 115, 32, 121, 101, 115, 116, 101, 114, 100, 97, 121>>)
    @@ ("delivery" :> <<100, 101, 108, 105, 118, 101, 114, 121>>)
    @@ ("details" :> <<100, 101, 116, 97, 105, 108, 115>>)
    @@ ("done" :> <<100, 111, 110, 101>>)
    @@ ("globex" :> <<103, 108, 111, 98, 101, 120>>)
    @@ ("hiring" :> <<104, 105, 114, 105, 110, 103>>)
    @@ ("in_progress" :> <<105, 110, 95, 112, 114, 111, 103, 114, 101, 115, 115>>)
    @@ ("intro" :> <<105, 110, 116, 114, 111>>)
    @@ ("intro call" :> <<105, 110, 116, 114, 111, 32, 99, 97, 108, 108>>)
    @@ ("john@acme-inc.com" :> <<106, 111, 104, 110, 64, 97, 99, 109, 101, 45, 105, 110, 99, 46, 99, 111, 109>>)
    @@ ("kick off" :> <<107, 105, 99, 107, 32, 111, 102, 102>>)
    @@ ("kick-off" :> <<107, 105, 99, 107, 45, 111, 102, 102>>)
    @@ ("kickoff" :> <<107, 105, 99, 107, 111, 102, 102>>)
    @@ ("kickoff call now" :> <<107, 105, 99, 107, 111, 102, 102, 32, 99, 97, 108, 108, 32, 110, 111, 119>>)
    @@ ("mystery" :> <<109, 121, 115, 116, 101, 114, 121>>)
    @@ ("new client co" :> <<110, 101, 119, 32, 99, 108, 105, 101, 110, 116, 32, 99, 111>>)
    @@ ("o1" :> <<111, 49>>)
    @@ ("offer" :> <<111, 102, 102, 101, 114>>)
    @@ ("offer sent today" :> <<111, 102, 102, 101, 114, 32, 115, 101, 110, 116, 32, 116, 111, 100, 97, 121>>)
    @@ ("onboarding" :> <<111, 110, 98, 111, 97, 114, 100, 105, 110, 103>>)
    @@ ("onboarding and shipping" :> <<111, 110, 98, 111, 97, 114, 100, 105, 110, 103, 32, 97, 110, 100, 32, 115, 104, 105, 112, 112, 105, 110, 103>>)
    @@ ("payroll" :> <<112, 97, 121, 114, 111, 108, 108>>)
    @@ ("recruit" :> <<114, 101, 99, 114, 117, 105, 116>>)
    @@ ("recruiting" :> <<114, 101, 99, 114, 117, 105, 116, 105, 110, 103>>)
    @@ ("recruiting pipeline" :> <<114, 101, 99, 114, 117, 105, 116, 105, 110, 103, 32, 112, 105, 112, 101, 108, 105, 110, 101>>)
    @@ ("recruitment" :> <<114, 101, 99, 114, 117, 105, 116, 109, 101, 110, 116>>)
    @@ ("role" :> <<114, 111, 108, 101>>)
    @@ ("role details" :> <<114, 111, 108, 101, 32, 100, 101, 116, 97, 105, 108, 115>>)
    @@ ("role-details" :> <<114, 111, 108, 101, 45, 100, 101, 116, 97, 105, 108, 115>>)
    @@ ("role_details" :> <<114, 111, 108, 101, 95, 100, 101, 116, 97, 105, 108, 115>>)
    @@ ("s1" :> <<115, 49>>)
    @@ ("s2" :> <<115, 50>>)
    @@ ("s3" :> <<115, 51>>)
    @@ ("setup" :> <<115, 101, 116, 117, 112>>)
    @@ ("setup done" :> <<115, 101, 116, 117, 112, 32, 100, 111, 110, 101>>)
    @@ ("ship" :> <<115, 104, 105, 112>>)
    @@ ("shipping" :> <<115, 104, 105, 112, 112, 105, 110, 103>>)
    @@ ("shipping setup" :> <<115, 104, 105, 112, 112, 105, 110, 103, 32, 115, 101, 116, 117, 112>>)
    @@ ("sourcing" :> <<115, 111, 117, 114, 99, 105, 110, 103>>)
    @@ ("sourcing and offer" :> <<115, 111, 117, 114, 99, 105, 110, 103, 32, 97, 110, 100, 32, 111, 102, 102, 101, 114>>)
    @@ ("step-3" :> <<115, 116, 101, 112, 45, 51>>)
    @@ ("the hiring team" :> <<116, 104, 101, 32, 104, 105, 114, 105, 110, 103, 32, 116, 101, 97, 109>>)
    @@ ("waiting" :> <<119, 97, 105, 116, 105, 110, 103>>)
    @@ ("Acme" :> <<65, 99, 109, 101>>)
    @@ ("Glx" :> <<71, 108, 120>>)
    @@ ("Ghost" :> <<71, 104, 111, 115, 116>>)
    @@ ("HIRING" :> <<72, 73, 82, 73, 78, 71>>)
    @@ ("Lead" :> <<76, 101, 97, 100>>)
    @@ ("Offer" :> <<79, 102, 102, 101, 114>>)
    @@ ("On Site" :> <<79, 110, 32, 83, 105, 116, 101>>)
    @@ ("RD" :> <<82, 68>>)
    @@ ("Signed" :> <<83, 105, 103, 110, 101, 100>>)
    @@ ("close" :> <<99, 108, 111, 115, 101>>)
    @@ ("ghost" :> <<103, 104, 111, 115, 116>>)
    @@ ("intake" :> <<105, 110, 116, 97, 107, 101>>)
    @@ ("offer sent" :> <<111, 102, 102, 101, 114, 32, 115, 101, 110, 116>>)
    @@ ("onsite" :> <<111, 110, 115, 105, 116, 101>>)
    @@ ("rd" :> <<114, 100>>)
    @@ ("signed" :> <<115, 105, 103, 110, 101, 100>>)
    @@ ("talent" :> <<116, 97, 108, 101, 110, 116>>)

\* datetime.fromisoformat on the timestamps in use, as seconds since the epoch
\* (a naive value is taken as UTC); a string outside the table does not parse.
IsoEpoch ==
    ("2026-01-01T00:00:00Z" :> 1767225600)
    @@ ("2026-01-02T00:00:00Z" :> 1767312000)
    @@ ("2026-01-02T00:00:00+00:00" :> 1767312000)
    @@ ("2026-01-03T00:00:00" :> 1767398400)
    @@ ("2026-01-19T12:00:00Z" :> 1768824000)
    @@ ("2026-01-17T12:00:00Z" :> 1768651200)
    @@ ("2026-01-15T12:00:00Z" :> 1768478400)
    @@ ("2026-01-13T12:00:01Z" :> 1768305601)
    @@ ("2026-01-13T12:00:00Z" :> 1768305600)
    @@ ("2026-01-10T12:00:00" :> 1768046400)
    @@ ("2026-01-06T12:00:00+00:00" :> 1767700800)
    @@ ("2025-12-31T12:00:00Z" :> 1767182400)
    @@ ("2026-01-21T12:00:00Z" :> 1768996800)
    @@ ("2026-01-20T12:00:00Z" :> 1768910400)

\* hashlib.sha1(base.encode("utf-8")).hexdigest()[:12] for every base string the
\* model can form.
Sha1Hex12 ==
    ("None|recruiting|Altum|" :> "46ed5e93efa1")
    @@ ("None|recruiting|Altum|AI Engineer" :> "8f438f6a0fdc")
    @@ ("None|recruiting|Globex|" :> "2b45d90c987e")
    @@ ("None|recruiting|Globex|AI Engineer" :> "870e7aec1507")
    @@ ("None|recruiting||" :> "efce5b412b8b")
    @@ ("None|recruiting||AI Engineer" :> "37f91d976867")
    @@ ("None||Altum|" :> "b9107fa7b6dd")
    @@ ("None||Altum|AI Engineer" :> "200972ad1632")
    @@ ("None||Globex|" :> "78ae05ef22f2")
    @@ ("None||Globex|AI Engineer" :> "77a688377774")
    @@ ("None|||" :> "7799bc42aba6")
    @@ ("None|||AI Engineer" :> "031a16ecabf6")
    @@ ("delivery|Globex|PM" :> "3616c3777776")
    @@ ("recruiting|Altum|AI Engineer" :> "f905311eaf8a")
    @@ ("recruiting|Altum|AI Engineer Lead" :> "7d49b332e416")
    @@ ("recruiting|Altum|Lead AI Engineer" :> "4c730acdee20")
    @@ ("recruiting|Altum|PM" :> "26ae60d93ae8")
    @@ ("thread:1|recruiting|Altum|" :> "2d1e91c49ece")
    @@ ("thread:1|recruiting|Altum|AI Engineer" :> "139e64f0cb9f")
    @@ ("thread:1|recruiting|Globex|" :> "f1c8636a6ebe")
    @@ ("thread:1|recruiting|Globex|AI Engineer" :> "446762da29a6")
    @@ ("thread:1|recruiting||" :> "35ba1e4dfc08")
    @@ ("thread:1|recruiting||AI Engineer" :> "e80c6033c134")
    @@ ("thread:1||Altum|" :> "73dfd6b7cfda")
    @@ ("thread:1||Altum|AI Engineer" :> "9eb25efc935f")
    @@ ("thread:1||Globex|" :> "8ac28aaa74d8")
    @@ ("thread:1||Globex|AI Engineer" :> "df72aa742d96")
    @@ ("thread:1|||" :> "61f0a52cba60")
    @@ ("thread:1|||AI Engineer" :> "d449929c862f")
    @@ ("thread:2|recruiting|Altum|" :> "4a0e282fea7c")
    @@ ("thread:2|recruiting|Altum|AI Engineer" :> "868d31118645")
    @@ ("thread:2|recruiting|Globex|" :> "65f8fcf98dd6")
    @@ ("thread:2|recruiting|Globex|AI Engineer" :> "14d21a20ec53")
    @@ ("thread:2|recruiting||" :> "21f3972fb236")
    @@ ("thread:2|recruiting||AI Engineer" :> "c747cf8cd813")
    @@ ("thread:2||Altum|" :> "64f8e244d123")
    @@ ("thread:2||Altum|AI Engineer" :> "eadfa3faeed1")
    @@ ("thread:2||Globex|" :> "68b09a05b03c")
    @@ ("thread:2||Globex|AI Engineer" :> "d54d78054fb4")
    @@ ("thread:2|||" :> "2b2e334f4341")
    @@ ("thread:2|||AI Engineer" :> "d74179727a61")
    @@ ("thread:6|recruiting|Altum|AI Engineer" :> "8f620ecbdd0a")

(***************************************************************************)
(* String primitives on code-point sequences.                              *)
(***************************************************************************)

\* str.lower() on ASCII.
Lower(cs) == [i \in 1..Len(cs) |-> IF cs[i] >= 65 /\ cs[i] <= 90 THEN cs[i] + 32 ELSE cs[i]]

\* Largest element of a non-empty set of naturals.
SetMax(S) == CHOOSE x \in S : \A y \in S : y <= x

(***************************************************************************)
(* difflib.SequenceMatcher(None, a, b).ratio(), no junk (autojunk only     *)
(* acts on sequences of 200 or more elements).  Indices are Python's:      *)
(* 0-based, ranges half-open; a[i] of Python is a[i+1] here.               *)
(***************************************************************************)

\* j2len[j] while row i is processed: length of the common run that ends at
\* a[i], b[j] and stays inside a[alo:], b[blo:].
RECURSIVE j2len(_, _, _, _, _, _)
j2len(a, b, i, j, alo, blo) ==
    IF i < alo \/ j < blo THEN 0
    ELSE IF a[i + 1] # b[j + 1] THEN 0
    ELSE 1 + j2len(a, b, i - 1, j - 1, alo, blo)

\* find_longest_match: <<besti, bestj, bestsize>>; the update is on k > bestsize
\* only, so the first maximal cell in (i ascending, j ascending) order wins.
find_longest_match(a, b, alo, ahi, blo, bhi) ==
    LET cells == (alo..(ahi - 1)) \X (blo..(bhi - 1))
        sizes == {j2len(a, b, c[1], c[2], alo, blo) : c \in cells} \cup {0}
        bestsize == SetMax(sizes)
    IN  IF bestsize = 0 THEN <<alo, blo, 0>>
        ELSE LET hits == {c \in cells : j2len(a, b, c[1], c[2], alo, blo) = bestsize}
                 first == CHOOSE c \in hits : \A d \in hits :
                              c[1] < d[1] \/ (c[1] = d[1] /\ c[2] <= d[2])
             IN  <<first[1] - bestsize + 1, first[2] - bestsize + 1, bestsize>>

\* Sum of the sizes of get_matching_blocks(): the longest block, then the
\* same to its left and to its right.
RECURSIVE matching_total(_, _, _, _, _, _)
matching_total(a, b, alo, ahi, blo, bhi) ==
    LET m == find_longest_match(a, b, alo, ahi, blo, bhi)
        i == m[1]
        j == m[2]
        k == m[3]
    IN  IF k = 0 THEN 0
        ELSE k
             + (IF alo < i /\ blo < j THEN matching_total(a, b, alo, i, blo, j) ELSE 0)
             + (IF i + k < ahi /\ j + k < bhi
                THEN matching_total(a, b, i + k, ahi, j + k, bhi) ELSE 0)

\* ratio() = 2.0 * matches / (len(a) + len(b)), 1.0 when both are empty.
\* A score is the exact fraction <<numerator, denominator>>.
ratio(a, b) ==
    IF Len(a) + Len(b) = 0 THEN <<1, 1>>
    ELSE <<2 * matching_total(a, b, 0, Len(a), 0, Len(b)), Len(a) + Len(b)>>

\* Comparison of scores (fractions with positive denominators).
ScoreGt(s, t) == s[1] * t[2] > t[1] * s[2]
ScoreGe(s, t) == s[1] * t[2] >= t[1] * s[2]

(***************************************************************************)
(* More string primitives.                                                 *)
(***************************************************************************)

\* Characters str.split(), str.strip() and \s treat as whitespace: the code
\* points for which str.isspace() holds.
IsSpace(c) ==
    \/ c \in {9, 10, 11, 12, 13, 28, 29, 30, 31, 32, 133, 160, 5760}
    \/ (c >= 8192 /\ c <= 8202)
    \/ c \in {8232, 8233, 8239, 8287, 12288}

\* " ".join(cs.split()): words separated by single spaces, no leading or
\* trailing space.
RECURSIVE JoinSplit(_, _, _)
JoinSplit(cs, i, out) ==
    IF i > Len(cs) THEN out
    ELSE IF IsSpace(cs[i]) THEN JoinSplit(cs, i + 1, out)
    ELSE IF out # <<>> /\ IsSpace(cs[i - 1]) THEN JoinSplit(cs, i + 1, out \o <<32, cs[i]>>)
    ELSE JoinSplit(cs, i + 1, Append(out, cs[i]))

\* _norm_text: "-" and "_" become spaces, whitespace is collapsed, then lower().
\* The result is a code-point sequence; None and "" give the empty one.
_norm_text(value) ==
    IF ~Truthy(value) THEN <<>>
    ELSE LET cs == CodePoints[value]
             replaced == [i \in 1..Len(cs) |-> IF cs[i] \in {45, 95} THEN 32 ELSE cs[i]]
         IN  Lower(JoinSplit(replaced, 1, <<>>))

\* Python's `x in y` on strings.
Contains(x, y) ==
    \E k \in 0..(Len(y) - Len(x)) : SubSeq(y, k + 1, k + Len(x)) = x

\* Python's `v in list`.
InSeq(v, s) == \E i \in 1..Len(s) : s[i] = v

\* list.index(v): position (1-based here) of the first occurrence.
IndexOf(v, s) == CHOOSE i \in 1..Len(s) : s[i] = v /\ \A j \in 1..(i - 1) : s[j] # v

\* dict.get(k) and dict.get(k, default) on a function.
Get(f, k) == IF k \in DOMAIN f THEN f[k] ELSE None
GetOr(f, k, d) == IF k \in DOMAIN f THEN f[k] ELSE d

\* Concatenation of a sequence of sequences.
RECURSIVE Flatten(_)
Flatten(ss) == IF ss = <<>> THEN <<>> ELSE Head(ss) \o Flatten(Tail(ss))

(***************************************************************************)
(* Workflow definition.                                                    *)
(***************************************************************************)

\* The workflow-definition document the runs are given: ordered processes,
\* phases and steps, each with id and name.
DefinitionDoc ==
    << [id |-> "recruiting", name |-> "Hiring", phases |-> <<
            [id |-> "phase-1", name |-> "Phase 1", steps |-> <<
                [id |-> "s1", name |-> "Step 1"], [id |-> "s2", name |-> "Step 2"] >>],
            [id |-> "phase-2", name |-> "Phase 2", steps |-> <<
                [id |-> "s3", name |-> "Step 3"] >>] >>],
       [id |-> "onboarding", name |-> "Client Onboarding", phases |-> <<
            [id |-> "kickoff", name |-> "Kickoff", steps |-> <<
                [id |-> "o1", name |-> "Kickoff Call"] >>],
            [id |-> "wrapup", name |-> "Wrap Up", steps |-> << >>] >>] >>

\* Helpers for the builder: records that carry an id, their ids, and the
\* position of the first / last record with a given id.
WithId(rs) == SelectSeq(rs, LAMBDA r : Truthy(r.id))
Ids(rs) == [i \in 1..Len(rs) |-> rs[i].id]
IdSet(rs) == {rs[i].id : i \in 1..Len(rs)}
IdxOfFirst(rs, id) == CHOOSE i \in 1..Len(rs) : rs[i].id = id /\ \A j \in 1..(i - 1) : rs[j].id # id
IdxOfLast(rs, id) ==
    CHOOSE i \in 1..Len(rs) : rs[i].id = id /\ \A j \in (i + 1)..Len(rs) : rs[j].id # id

\* build_workflow_definition: the lookup tables of a definition document.
\* Entries without an id are skipped.  Where a process id repeats, the later
\* entry replaces processes_by_id, phases_in_order and process_steps_in_order
\* of the id (lines 62-64, 93); the tables keyed by (process, phase) and
\* (process, step) are only ever assigned to, so they keep the keys of the
\* earlier entry and take the value of the last assignment in document
\* order.  process_ids is the key order of processes_by_id (insertion order).
build_workflow_definition(data) ==
    LET procs == WithId(data)
        pids == IdSet(procs)
        Proc(pid) == procs[IdxOfLast(procs, pid)]
        Phases(pid) == WithId(Proc(pid).phases)
        Steps(ph) == WithId(ph.steps)
        \* the steps of a process across its phases
        AllSteps(pid) == Flatten([i \in 1..Len(Phases(pid)) |-> Steps(Phases(pid)[i])])
        \* every phase and every step of the document in the order the loops
        \* visit them, each with the process (and phase) it is assigned under
        Visited ==
            Flatten([i \in 1..Len(procs) |->
                [j \in 1..Len(WithId(procs[i].phases)) |->
                    [pid |-> procs[i].id, phase |-> WithId(procs[i].phases)[j]]]])
        VisitedSteps ==
            Flatten([i \in 1..Len(Visited) |->
                [j \in 1..Len(Steps(Visited[i].phase)) |->
                    [pid |-> Visited[i].pid, phase_id |-> Visited[i].phase.id,
                     step |-> Steps(Visited[i].phase)[j]]]])
        phasekeys == {<<Visited[i].pid, Visited[i].phase.id>> : i \in 1..Len(Visited)}
        stepkeys == {<<VisitedSteps[i].pid, VisitedSteps[i].step.id>> : i \in 1..Len(VisitedSteps)}
        LastPhase(k) ==
            Visited[SetMax({i \in 1..Len(Visited) :
                               <<Visited[i].pid, Visited[i].phase.id>> = k})].phase
        LastStep(k) ==
            VisitedSteps[SetMax({i \in 1..Len(VisitedSteps) :
                                    <<VisitedSteps[i].pid, VisitedSteps[i].step.id>> = k})]
        firsts == SelectSeq([i \in 1..Len(procs) |-> i],
                            LAMBDA i : IdxOfFirst(procs, procs[i].id) = i)
    IN  [ process_ids |-> [n \in 1..Len(firsts) |-> procs[firsts[n]].id],
          process_name |-> [pid \in pids |-> Proc(pid).name],
          process_steps_in_order |-> [pid \in pids |-> Ids(AllSteps(pid))],
          step_to_phase |-> [k \in stepkeys |-> LastStep(k).phase_id],
          phase_to_steps |-> [k \in phasekeys |-> Ids(Steps(LastPhase(k)))],
          phases_in_order |-> [pid \in pids |-> Ids(Phases(pid))],
          phase_info |-> [k \in phasekeys |-> [id |-> k[2], name |-> LastPhase(k).name]],
          step_info |-> [k \in stepkeys |-> [id |-> k[2], name |-> LastStep(k).step.name]] ]

\* The compiled definition every run uses (load_workflow_definition).
definition == build_workflow_definition(DefinitionDoc)

(***************************************************************************)
(* Configuration (_get_reconciliation_config).                             *)
(***************************************************************************)

\* scope.hiring_process_keys, its default.
hiring_process_keys == <<"recruiting", "hiring">>

\* reconcile.match.exact_key_fields, its default.
exact_key_fields == <<"canonical_client", "canonical_role", "canonical_process">>

\* reconcile.match.fuzzy_threshold, its default 0.88, as a fraction.
fuzzy_threshold == <<88, 100>>

\* reconcile.evidence.max_ids_per_instance and timeline_fallback_max as the
\* runs configure them (small, so that the caps are reached).
max_ids_per_instance == 3
timeline_fallback_max == 2

\* inference.positional.enabled and .completed_label, their defaults.
positional_enabled == TRUE
completed_label_default == "completed_inferred"

\* An Optional[List] that is None.  The functions that return one never return
\* an empty list, and their callers only test truthiness, so None and [] are
\* one value here.
NoList == <<>>

(***************************************************************************)
(* Pure helpers of the engine.                                             *)
(***************************************************************************)

\* resolve_definition_process_id
resolve_definition_process_id(canonical_process, defn, hiring_keys) ==
    IF ~Truthy(canonical_process) THEN None
    ELSE IF canonical_process \in DOMAIN defn.process_name THEN canonical_process
    ELSE LET canon_norm == _norm_text(canonical_process)
             pids == defn.process_ids
             byname == {i \in 1..Len(pids) :
                           \/ _norm_text(pids[i]) = canon_norm
                           \/ _norm_text(defn.process_name[pids[i]]) = canon_norm}
             inkeys == {i \in 1..Len(pids) : InSeq(pids[i], hiring_keys)}
         IN  IF byname # {} THEN pids[CHOOSE i \in byname : \A j \in byname : i <= j]
             ELSE IF inkeys # {} THEN pids[CHOOSE i \in inkeys : \A j \in inkeys : i <= j]
             ELSE None

\* match_step_in_definition
match_step_in_definition(raw_step, process_id, defn) ==
    IF ~Truthy(raw_step) \/ ~Truthy(process_id) THEN None
    ELSE LET steps == GetOr(defn.process_steps_in_order, process_id, <<>>)
             raw_norm == _norm_text(raw_step)
             NameOf(step_id) == Or(GetOr(defn.step_info, <<process_id, step_id>>,
                                         [id |-> step_id, name |-> None]).name, "")
             Equal(step_id) == \/ _norm_text(step_id) = raw_norm
                               \/ _norm_text(NameOf(step_id)) = raw_norm
             Candidate(step_id) ==
                 LET step_norm == _norm_text(step_id)
                     name_norm == _norm_text(NameOf(step_id))
                 IN  \/ step_norm # <<>> /\ (Contains(step_norm, raw_norm) \/ Contains(raw_norm, step_norm))
                     \/ name_norm # <<>> /\ (Contains(name_norm, raw_norm) \/ Contains(raw_norm, name_norm))
             exact == {i \in 1..Len(steps) : Equal(steps[i])}
             \* set(candidates) when the loop ends without an exact hit
             candidates == {steps[i] : i \in {j \in 1..Len(steps) : Candidate(steps[j])}}
         IN  IF steps = <<>> THEN None
             ELSE IF raw_norm = <<>> THEN None
             ELSE IF exact # {} THEN steps[CHOOSE i \in exact : \A j \in exact : i <= j]
             ELSE IF Cardinality(candidates) = 1 THEN CHOOSE s \in candidates : TRUE
             ELSE None

\* derive_current_step_id.  instance.steps_state is a function from step ids
\* to state tags; a missing or non-dict steps_state is the empty function,
\* which the code treats alike (no step is found in it).
derive_current_step_id(instance, process_id, defn) ==
    IF ~Truthy(process_id) THEN None
    ELSE LET steps == GetOr(defn.process_steps_in_order, process_id, <<>>)
             state == instance.state
             cands == << Or(state.current_step_id, instance.current_step_id),
                         Or(state.step_id, instance.step_id),
                         Or(state.canonical_step_id, instance.canonical_step_id) >>
             hits == {k \in 1..3 : InSeq(cands[k], steps)}
             ss == instance.steps_state
             Tag(step_id) == Get(ss, step_id)
             active == {i \in 1..Len(steps) : Tag(steps[i]) \in {"in_progress", "blocked"}}
             completed == {i \in 1..Len(steps) : Tag(steps[i]) \in {"completed", "completed_inferred"}}
         IN  IF steps = <<>> THEN None
             ELSE IF hits # {} THEN cands[CHOOSE k \in hits : \A l \in hits : k <= l]
             ELSE IF active # {}
                  THEN steps[CHOOSE i \in active : \A j \in active : i <= j]
             ELSE IF completed # {}
                  THEN steps[CHOOSE i \in completed : \A j \in completed : j <= i]
             ELSE match_step_in_definition(state.step, process_id, defn)

\* A variant of the current step's status that compares the status as given,
\* without lower-casing it.
CurrentStepStatus_as_given(status) ==
    IF status = "blocked" THEN "blocked"
    ELSE IF status \in {"done", "completed"} THEN "completed"
    ELSE "in_progress"

\* The status a positional step list gives the current step.
CurrentStepStatus(status) ==
    LET status_norm == IF Truthy(status) THEN Lower(CodePoints[status]) ELSE <<>>
    IN  IF status_norm = CodePoints["blocked"] THEN "blocked"
        ELSE IF status_norm \in {CodePoints["done"], CodePoints["completed"]} THEN "completed"
        ELSE "in_progress"

\* infer_steps_from_position: NoList (None), or the list of {id, name, status}.
infer_steps_from_position(process_id, defn, current_step_id, status, completed_label) ==
    IF ~Truthy(process_id) \/ ~Truthy(current_step_id) THEN NoList
    ELSE LET steps == GetOr(defn.process_steps_in_order, process_id, <<>>)
         IN  IF steps = <<>> \/ ~InSeq(current_step_id, steps) THEN NoList
             ELSE LET index == IndexOf(current_step_id, steps)
                  IN  [idx \in 1..Len(steps) |->
                          [id |-> steps[idx],
                           name |-> GetOr(defn.step_info, <<process_id, steps[idx]>>,
                                          [id |-> steps[idx], name |-> None]).name,
                           status |-> IF idx < index THEN completed_label
                                      ELSE IF idx = index THEN CurrentStepStatus(status)
                                      ELSE "not_started"]]

\* infer_phase_id
infer_phase_id(process_id, current_step_id, defn) ==
    IF ~Truthy(process_id) \/ ~Truthy(current_step_id) THEN "unknown"
    ELSE GetOr(defn.step_to_phase, <<process_id, current_step_id>>, "unknown")

\* A variant of the phase inference in which a blocked step does not make its
\* phase in progress.
infer_phases_from_steps_blocked_idle(process_id, defn, steps, completed_label) ==
    IF ~Truthy(process_id) \/ steps = NoList THEN NoList
    ELSE LET phases == GetOr(defn.phases_in_order, process_id, <<>>)
             StatusOf(step_id) ==
                 IF \E i \in 1..Len(steps) : steps[i].id = step_id
                 THEN steps[IdxOfLast(steps, step_id)].status
                 ELSE None
             PhaseStatus(phase_id) ==
                 LET phase_steps == GetOr(defn.phase_to_steps, <<process_id, phase_id>>, <<>>)
                     statuses == [i \in 1..Len(phase_steps) |-> StatusOf(phase_steps[i])]
                 IN  IF statuses = <<>> THEN "unknown"
                     ELSE IF \A i \in 1..Len(statuses) : statuses[i] \in {"completed", completed_label}
                          THEN completed_label
                     ELSE IF \E i \in 1..Len(statuses) : statuses[i] = "in_progress"
                          THEN "in_progress"
                     ELSE "not_started"
         IN  IF phases = <<>> THEN NoList
             ELSE [i \in 1..Len(phases) |->
                      [id |-> phases[i],
                       name |-> GetOr(defn.phase_info, <<process_id, phases[i]>>,
                                      [id |-> phases[i], name |-> None]).name,
                       status |-> PhaseStatus(phases[i])]]

\* infer_phases_from_steps: NoList (None), or the list of {id, name, status}.
infer_phases_from_steps(process_id, defn, steps, completed_label) ==
    IF ~Truthy(process_id) \/ steps = NoList THEN NoList
    ELSE LET phases == GetOr(defn.phases_in_order, process_id, <<>>)
             \* {s["id"]: s.get("status")}: the last entry with an id wins
             StatusOf(step_id) ==
                 IF \E i \in 1..Len(steps) : steps[i].id = step_id
                 THEN steps[IdxOfLast(steps, step_id)].status
                 ELSE None
             PhaseStatus(phase_id) ==
                 LET phase_steps == GetOr(defn.phase_to_steps, <<process_id, phase_id>>, <<>>)
                     statuses == [i \in 1..Len(phase_steps) |-> StatusOf(phase_steps[i])]
                 IN  IF statuses = <<>> THEN "unknown"
                     ELSE IF \A i \in 1..Len(statuses) : statuses[i] \in {"completed", completed_label}
                          THEN completed_label
                     ELSE IF \E i \in 1..Len(statuses) : statuses[i] \in {"in_progress", "blocked"}
                          THEN "in_progress"
                     ELSE "not_started"
         IN  IF phases = <<>> THEN NoList
             ELSE [i \in 1..Len(phases) |->
                      [id |-> phases[i],
                       name |-> GetOr(defn.phase_info, <<process_id, phases[i]>>,
                                      [id |-> phases[i], name |-> None]).name,
                       status |-> PhaseStatus(phases[i])]]

\* A variant of the id whose hashed base always carries the instance key and
\* the raw fields.
generate_workflow_id_keyed(canonical_process, canonical_client, canonical_role, instance_key, raw_client, raw_role) ==
    "wf_" \o Sha1Hex12[Str(instance_key) \o "|" \o Or(canonical_process, "") \o "|"
                       \o Or(raw_client, "") \o "|" \o Or(raw_role, "")]

\* generate_workflow_id
generate_workflow_id(canonical_process, canonical_client, canonical_role, instance_key, raw_client, raw_role) ==
    LET base == IF Truthy(canonical_process) /\ Truthy(canonical_client) /\ Truthy(canonical_role)
                THEN canonical_process \o "|" \o canonical_client \o "|" \o canonical_role
                ELSE Str(instance_key) \o "|" \o Or(canonical_process, "") \o "|"
                     \o Or(raw_client, "") \o "|" \o Or(raw_role, "")
    IN  "wf_" \o Sha1Hex12[base]

\* _display_name
_display_name(role, client) == Or(role, "Unknown Role") \o " - " \o Or(client, "Unknown Client")

\* _display_key
_display_key(role, client, process_id) ==
    Or(role, "Unknown Role") \o " - " \o Or(client, "Unknown Client") \o " - "
    \o Or(process_id, "unknown")

\* _merge_evidence_ids: the loop over existing + incoming, with its break
\* after an append that reaches max_ids.
RECURSIVE MergeLoop(_, _, _, _)
MergeLoop(ids, i, merged, max_ids) ==
    IF i > Len(ids) THEN merged
    ELSE IF ~Truthy(ids[i]) \/ InSeq(ids[i], merged) THEN MergeLoop(ids, i + 1, merged, max_ids)
    ELSE IF Len(merged) + 1 >= max_ids THEN Append(merged, ids[i])
    ELSE MergeLoop(ids, i + 1, Append(merged, ids[i]), max_ids)

_merge_evidence_ids(existing, incoming, max_ids) ==
    MergeLoop(existing \o incoming, 1, <<>>, max_ids)

\* _parse_iso succeeds: the string is non-empty and an ISO timestamp.
Parses(ts) == Truthy(ts) /\ ts \in DOMAIN IsoEpoch

\* A variant of the timestamp choice that always takes the incoming value.
_choose_latest_ts_incoming(existing, incoming) == incoming

\* _choose_latest_ts
_choose_latest_ts(existing, incoming) ==
    IF ~Truthy(incoming) THEN existing
    ELSE IF ~Truthy(existing) THEN incoming
    ELSE IF ~Parses(existing) \/ ~Parses(incoming) THEN incoming
    ELSE IF IsoEpoch[incoming] >= IsoEpoch[existing] THEN incoming
    ELSE existing

(***************************************************************************)
(* Instances: the per-run input records.                                   *)
(***************************************************************************)

\* inst.get("state") or {}: a missing state is a state with no fields.
EmptyState ==
    [status |-> None, step |-> None, last_updated_at |-> None, confidence |-> None,
     current_step_id |-> None, step_id |-> None, canonical_step_id |-> None]

\* An instance none of whose keys is present.  evidence_message_ids is a list
\* of ids, evidence the list of the message_id of each evidence record.
EmptyInstance ==
    [instance_key |-> None,
     canonical_process |-> None, canonical_client |-> None, canonical_role |-> None,
     candidate_client_raw |-> None, candidate_role_raw |-> None,
     candidate_process_raw |-> None, candidate_client |-> None, candidate_role |-> None,
     health |-> None, evidence_message_ids |-> <<>>, evidence |-> <<>>,
     state |-> EmptyState,
     current_step_id |-> None, step_id |-> None, canonical_step_id |-> None,
     steps_state |-> <<>>,
     canonical_current_step_id |-> None, canonical_current_step_match_type |-> None]

\* The instance records the runs draw their input lists from.
ListedInstances ==
       ("I1" :> [EmptyInstance EXCEPT
        !.instance_key = "thread:1",
        !.canonical_process = "recruiting",
        !.canonical_client = "Altum",
        !.canonical_role = "AI Engineer",
        !.candidate_client_raw = "Altum",
        !.candidate_role_raw = "AI Engineer",
        !.candidate_process_raw = "Hiring",
        !.health = "on_track",
        !.evidence = <<"m1", "m2">>,
        !.state = [EmptyState EXCEPT !.status = "in_progress", !.step = "Step 2", !.last_updated_at = "2026-01-02T00:00:00Z", !.confidence = "0.9"]])
    @@ ("I2" :> [EmptyInstance EXCEPT
        !.instance_key = "thread:2",
        !.canonical_process = "recruiting",
        !.canonical_client = "Altum",
        !.canonical_role = "AI Engineer Lead",
        !.candidate_client_raw = "Altum",
        !.candidate_role_raw = "AI Engineer Lead",
        !.candidate_process_raw = "Hiring",
        !.health = "at_risk",
        !.evidence_message_ids = <<"m2", "", "m3", "m2", "m4">>,
        !.state = [EmptyState EXCEPT !.status = "Blocked", !.step = "step-3", !.last_updated_at = "2026-01-01T00:00:00Z", !.confidence = "0.5"]])
    @@ ("I3" :> [EmptyInstance EXCEPT
        !.instance_key = "thread:3",
        !.canonical_process = "recruiting",
        !.canonical_client = "Altum",
        !.canonical_role = "Lead AI Engineer",
        !.candidate_client_raw = "Altum",
        !.candidate_role_raw = "Lead AI Engineer",
        !.candidate_process_raw = "Hiring",
        !.state = [EmptyState EXCEPT !.status = "done", !.last_updated_at = "not-a-date", !.current_step_id = "s1"]])
    @@ ("I4" :> [EmptyInstance EXCEPT
        !.instance_key = "thread:4",
        !.canonical_process = "delivery",
        !.canonical_client = "Globex",
        !.canonical_role = "PM",
        !.candidate_client_raw = "Globex",
        !.candidate_role_raw = "PM",
        !.candidate_process_raw = "Delivery",
        !.health = "on_track",
        !.state = [EmptyState EXCEPT !.status = "in_progress", !.step = "Step 1", !.last_updated_at = "2026-01-03T00:00:00"]])
    @@ ("I5" :> EmptyInstance)
    @@ ("I6" :> [EmptyInstance EXCEPT
        !.instance_key = "thread:6",
        !.canonical_process = "recruiting",
        !.canonical_role = "AI Engineer",
        !.candidate_client_raw = "Altum",
        !.candidate_role_raw = "AI Engineer",
        !.canonical_current_step_match_type = "none",
        !.evidence = <<"m5", None>>,
        !.state = [EmptyState EXCEPT !.step = "Step", !.last_updated_at = "2026-01-01T00:00:00Z"]])
    @@ ("I7" :> [EmptyInstance EXCEPT
        !.instance_key = "thread:7",
        !.canonical_process = "recruiting",
        !.canonical_client = "Altum",
        !.canonical_role = "AI Engineer",
        !.candidate_client_raw = "Altum",
        !.candidate_role_raw = "AI Engineer",
        !.candidate_process_raw = "Hiring",
        !.health = "at_risk",
        !.evidence_message_ids = <<"m3">>,
        !.state = [EmptyState EXCEPT !.status = "Blocked", !.step = "Step 1", !.last_updated_at = "2026-01-03T00:00:00", !.confidence = "0.5"]])

InstanceIds == DOMAIN ListedInstances

\* The fields an instance document can lack: a key that is absent and a key
\* whose value is null read the same through `.get(key)` and `.get(key) or
\* default`, the only ways lines 387-405 and 488-678 read an instance.
FieldNames ==
    {"canonical_process", "canonical_client", "canonical_role", "raw", "instance_key",
     "state", "step", "status", "timestamp", "confidence", "evidence", "health"}

\* The instance as the engine reads it when the fields of `absent` are absent
\* or null ("raw" stands for the three candidate_*_raw fields, "evidence" for
\* evidence and evidence_message_ids, "state" for the whole state object).
Without(inst, absent) ==
    LET Keep(name, v) == IF name \in absent THEN None ELSE v
    IN  [inst EXCEPT
            !.canonical_process = Keep("canonical_process", @),
            !.canonical_client = Keep("canonical_client", @),
            !.canonical_role = Keep("canonical_role", @),
            !.candidate_client_raw = Keep("raw", @),
            !.candidate_role_raw = Keep("raw", @),
            !.candidate_process_raw = Keep("raw", @),
            !.instance_key = Keep("instance_key", @),
            !.health = Keep("health", @),
            !.evidence = IF "evidence" \in absent THEN <<>> ELSE @,
            !.evidence_message_ids = IF "evidence" \in absent THEN <<>> ELSE @,
            !.state = IF "state" \in absent THEN EmptyState
                      ELSE [@ EXCEPT !.step = Keep("step", @),
                                     !.status = Keep("status", @),
                                     !.last_updated_at = Keep("timestamp", @),
                                     !.confidence = Keep("confidence", @)]]

\* The id of the instance I1 without the fields of `absent`: one letter for
\* each field that is present.
SparseId(absent) ==
    LET Mark(name, letter) == IF name \in absent THEN "-" ELSE letter
    IN  "I1:" \o Mark("canonical_process", "p") \o Mark("canonical_client", "c")
        \o Mark("canonical_role", "r") \o Mark("raw", "w") \o Mark("instance_key", "k")
        \o Mark("state", "s") \o Mark("step", "t") \o Mark("status", "u")
        \o Mark("timestamp", "a") \o Mark("confidence", "f") \o Mark("evidence", "e")
        \o Mark("health", "h")

SparsePairs == {<<SparseId(absent), absent>> : absent \in SUBSET FieldNames}

SparseIds == {p[1] : p \in SparsePairs}

\* The fields the sparse instance of an id lacks.
AbsentOf(id) == (CHOOSE p \in SparsePairs : p[1] = id)[2]

SparseInstances == [id \in SparseIds |-> Without(ListedInstances["I1"], AbsentOf(id))]

\* An entry of the evidence list that is not an object (a JSON null): the
\* list is present, one record of it is malformed.
NullEntry == "<null entry>"

MalformedIds == {"I1:null-evidence-entry"}

MalformedInstances ==
    [id \in MalformedIds |-> [ListedInstances["I1"] EXCEPT !.evidence = <<"m1", NullEntry>>]]

\* Every instance record of the model, by id.
InstanceById == ListedInstances @@ SparseInstances @@ MalformedInstances

\* timeline_by_instance: instance key -> message ids of its timeline.
timeline_by_instance == ("thread:3" :> <<"t1", "t2", "t3">>)

\* Bounds of the exploration: instances per run, runs per behaviour.
MaxInstances == 2
MaxRuns == 2

InstanceLists == UNION {[1..n -> InstanceIds] : n \in 0..MaxInstances}

(***************************************************************************)
(* Workflows, evidence and similarity.                                     *)
(***************************************************************************)

\* The elements of a list that are truthy.
Truthies(s) == SelectSeq(s, LAMBDA m : Truthy(m))

\* s[-n:] for n >= 0 (s[-0:] is all of s).
LastN(s, n) == IF n = 0 \/ n >= Len(s) THEN s ELSE SubSeq(s, Len(s) - n + 1, Len(s))

\* A reader of the evidence list that needs a list with entries: it also
\* raises for an instance that has no evidence.
extract_raises_without_evidence(instance) ==
    /\ Truthies(instance.evidence_message_ids) = <<>>
    /\ \/ instance.evidence = <<>>
       \/ \E i \in 1..Len(instance.evidence) : instance.evidence[i] = NullEntry

\* _extract_evidence_ids, lines 394-396: when evidence_message_ids gives no id
\* the evidence records are read with `ev.get`, which raises AttributeError on
\* an entry that is not an object.  No other read of an instance can raise.
extract_raises(instance) ==
    /\ Truthies(instance.evidence_message_ids) = <<>>
    /\ \E i \in 1..Len(instance.evidence) : instance.evidence[i] = NullEntry

\* _extract_evidence_ids; the timeline is given (a run without a timeline file
\* behaves as one with an empty timeline).
_extract_evidence_ids(instance, timeline, max_ids, fallback_max) ==
    LET direct == Truthies(instance.evidence_message_ids)
        fromev == Truthies(instance.evidence)
        timeline_ids == Truthies(GetOr(timeline, instance.instance_key, <<>>))
        ids == IF direct # <<>> THEN direct
               ELSE IF fromev # <<>> THEN fromev
               ELSE IF timeline_ids # <<>> THEN LastN(timeline_ids, fallback_max)
               ELSE <<>>
    IN  _merge_evidence_ids(<<>>, ids, max_ids)

\* round(x, 4) of a fraction, in ten-thousandths: to nearest, a tie to the
\* even neighbour (the fractions met here have denominators below 160, where
\* the float quotient rounds as the exact fraction does).
Round4(s) ==
    LET q == (10000 * s[1]) \div s[2]
        r == (10000 * s[1]) % s[2]
    IN  IF 2 * r > s[2] THEN q + 1
        ELSE IF 2 * r < s[2] THEN q
        ELSE IF q % 2 = 0 THEN q ELSE q + 1

\* _coverage_pct, in ten-thousandths.
_coverage_pct(n, total) == IF total = 0 THEN 0 ELSE Round4(<<n, total>>)

\* _is_known_role
_is_known_role(canon_role) == canon_role \notin {None, "", "Other", "Unknown"}

\* A workflow dict with only its id, as created for an unmatched instance;
\* absent keys read as None.
EmptyObservability ==
    [source_instance_key |-> None, last_updated_at |-> None, confidence |-> None,
     health |-> None, evidence_message_ids |-> <<>>,
     canonical_process |-> None, canonical_client |-> None, canonical_role |-> None,
     reconciliation |-> [match_type |-> None, match_score |-> 0, matched_workflow_id |-> None]]

NewWorkflow(workflow_id) ==
    [workflow_id |-> workflow_id, process_id |-> None, phase_id |-> None,
     client |-> None, role |-> None, display_name |-> None,
     steps |-> NoList, phases |-> NoList, observability |-> EmptyObservability]

\* Workflows of a store written before the process was renamed: process_id
\* "hiring", with or without a role and a client, and nothing else.
LegacyWorkflow(workflow_id, role, client) ==
    [NewWorkflow(workflow_id) EXCEPT !.process_id = "hiring", !.role = role, !.client = client]

\* The persisted stores a migration run may find.
LegacyStores ==
    {<<LegacyWorkflow("wf_1", None, None)>>,
     <<LegacyWorkflow("wf_2", "Lead AI Engineer", "Altum")>>}

\* The display keys instances and workflows of the universe can carry.
DisplayKeys ==
    UNION {{ _display_key(Or(i.canonical_role, i.candidate_role_raw),
                          Or(i.canonical_client, i.candidate_client_raw),
                          Or(i.canonical_process, "unknown")),
             _display_key(Or(i.canonical_role, Or(i.candidate_role_raw, i.candidate_role)),
                          Or(i.canonical_client, Or(i.candidate_client_raw, i.candidate_client)),
                          Or(i.canonical_process, "unknown")) }
           : i \in {InstanceById[x] : x \in DOMAIN InstanceById}}
    \cup {_display_key(s[1].role, s[1].client, s[1].process_id) : s \in LegacyStores}

\* SequenceMatcher ratios of the display keys, computed once.
SimilarityTable ==
    [p \in DisplayKeys \X DisplayKeys |->
        ratio(Lower(CodePoints[p[1]]), Lower(CodePoints[p[2]]))] @@ <<>>

\* _similarity
_similarity(a, b) == SimilarityTable[<<a, b>>]

\* An exact key that is None (a key tuple is never empty).
NoKey == <<>>

\* workflow_exact_key (local function of reconcile_instances)
workflow_exact_key(wf) ==
    LET obs == wf.observability
        Val(field) == CASE field = "canonical_process" -> Or(obs.canonical_process, wf.process_id)
                        [] field = "canonical_client" -> Or(obs.canonical_client, wf.client)
                        [] field = "canonical_role" -> Or(obs.canonical_role, wf.role)
                        [] OTHER -> None
        vals == [i \in 1..Len(exact_key_fields) |-> Str(Val(exact_key_fields[i]))]
    IN  IF \E i \in 1..Len(exact_key_fields) : ~Truthy(Val(exact_key_fields[i]))
        THEN NoKey ELSE vals

\* The exact key of an instance (reconcile_instances, lines 552-554).
instance_exact_key(inst) ==
    IF \A i \in 1..Len(exact_key_fields) : Truthy(inst[exact_key_fields[i]])
    THEN [i \in 1..Len(exact_key_fields) |-> Str(inst[exact_key_fields[i]])]
    ELSE NoKey

\* existing_exact as built before the loop: key -> position in workflows of
\* the last workflow with that key.
build_existing_exact(wfs) ==
    LET keyed == {i \in 1..Len(wfs) : workflow_exact_key(wfs[i]) # NoKey}
        keys == {workflow_exact_key(wfs[i]) : i \in keyed}
    IN  [k \in keys |-> SetMax({i \in keyed : workflow_exact_key(wfs[i]) = k})] @@ <<>>

\* existing_fuzzy as built before the loop: <<position in workflows, display key>>.
build_existing_fuzzy(wfs) ==
    [i \in 1..Len(wfs) |->
        <<i, _display_key(wfs[i].role, wfs[i].client, wfs[i].process_id)>>]

\* A variant of the fuzzy loop in which a later candidate with an equal score
\* replaces the best one.
RECURSIVE FuzzyLoop_last_wins(_, _, _, _, _)
FuzzyLoop_last_wins(cands, i, display, best, best_score) ==
    IF i > Len(cands) THEN <<best, best_score>>
    ELSE LET score == _similarity(display, cands[i][2])
         IN  IF ScoreGe(score, best_score)
             THEN FuzzyLoop_last_wins(cands, i + 1, display, cands[i][1], score)
             ELSE FuzzyLoop_last_wins(cands, i + 1, display, best, best_score)

\* The fuzzy loop (lines 568-574): <<best, best_score>>, best = 0 for None.
RECURSIVE FuzzyLoop(_, _, _, _, _)
FuzzyLoop(cands, i, display, best, best_score) ==
    IF i > Len(cands) THEN <<best, best_score>>
    ELSE LET score == _similarity(display, cands[i][2])
         IN  IF ScoreGt(score, best_score)
             THEN FuzzyLoop(cands, i + 1, display, cands[i][1], score)
             ELSE FuzzyLoop(cands, i + 1, display, best, best_score)

\* collections.Counter as the list of <<value, count>> in insertion order.
CounterAdd(c, v) ==
    IF \E i \in 1..Len(c) : c[i][1] = v
    THEN [i \in 1..Len(c) |-> IF c[i][1] = v THEN <<v, c[i][2] + 1>> ELSE c[i]]
    ELSE Append(c, <<v, 1>>)

CounterAddIf(c, cond, v) == IF cond THEN CounterAdd(c, v) ELSE c

\* Counter.most_common(n): by count, descending; equal counts in insertion order.
RECURSIVE most_common(_, _)
most_common(c, n) ==
    IF n = 0 \/ c = <<>> THEN <<>>
    ELSE LET m == CHOOSE i \in 1..Len(c) :
                      /\ \A j \in 1..Len(c) : c[j][2] <= c[i][2]
                      /\ \A j \in 1..(i - 1) : c[j][2] < c[i][2]
             rest == [j \in 1..(Len(c) - 1) |-> IF j < m THEN c[j] ELSE c[j + 1]]
         IN  <<c[m]>> \o most_common(rest, n - 1)

\* top(counter): the 10 most common values as {value, count} records.
TopN == 10

top(counter) ==
    LET mc == most_common(counter, TopN)
    IN  [i \in 1..Len(mc) |-> [value |-> mc[i][1], count |-> mc[i][2]]]

(***************************************************************************)
(* The decisions of reconcile_instances.                                   *)
(***************************************************************************)

\* A variant of the working list that keeps every prior workflow.
scoped_workflows_unfiltered(existing, only, keys) == existing

\* Lines 450-453: with hiring_only the working list is the prior workflows
\* whose process_id is an in-scope key; otherwise it is the prior list.
scoped_workflows(existing, only, keys) ==
    IF only THEN SelectSeq(existing, LAMBDA wf : InSeq(wf.process_id, keys)) ELSE existing

\* A variant of the scope test that skips nothing.
skips_writes_never(only, canon_process, keys) == FALSE

\* Line 538: the instance is counted but not written.
skips_writes(only, canon_process, keys) == only /\ ~InSeq(canon_process, keys)

\* A variant of the match that tries the fuzzy candidates before the exact index.
match_existing_fuzzy_first(exact_key, display, exact_index, fuzzy_list) ==
    LET fuzzy == FuzzyLoop(fuzzy_list, 1, display, 0, <<0, 1>>)
    IN  IF fuzzy[1] # 0 /\ ScoreGe(fuzzy[2], fuzzy_threshold)
        THEN <<fuzzy[1], "fuzzy", fuzzy[2]>>
        ELSE IF exact_key # NoKey /\ exact_key \in DOMAIN exact_index
        THEN <<exact_index[exact_key], "exact", <<1, 1>>>>
        ELSE <<0, "created", <<0, 1>>>>

\* Lines 551-578: <<matched, match_type, match_score>>, matched = 0 for None.
\* The exact index is consulted first, the fuzzy loop only on a miss.
match_existing(exact_key, display, exact_index, fuzzy_list) ==
    IF exact_key # NoKey /\ exact_key \in DOMAIN exact_index
    THEN <<exact_index[exact_key], "exact", <<1, 1>>>>
    ELSE LET fuzzy == FuzzyLoop(fuzzy_list, 1, display, 0, <<0, 1>>)
         IN  IF fuzzy[1] # 0 /\ ScoreGe(fuzzy[2], fuzzy_threshold)
             THEN <<fuzzy[1], "fuzzy", fuzzy[2]>>
             ELSE <<0, "created", <<0, 1>>>>

\* A variant of the registration that leaves the exact index as it is.
register_exact_never(exact_index, exact_key, matched) == exact_index

\* Lines 601-602: a created workflow is entered in the exact index under the
\* instance's key, when it has one.
register_exact(exact_index, exact_key, matched) ==
    IF exact_key # NoKey THEN (exact_key :> matched) @@ exact_index ELSE exact_index

(***************************************************************************)
(* State.                                                                  *)
(***************************************************************************)

VARIABLES
    store,            \* the persistent store's workflow list
    reports,          \* the report documents of the last finished run
    pc,               \* "idle", or "running" inside reconcile_instances
    runs,             \* runs started so far
    hiring_only,      \* scope.hiring_only of the current run
    instances,        \* the instance list of the current run (ids of InstanceById)
    pos,              \* position in instances of the next loop iteration
    workflows,        \* the working list of reconcile_instances
    existing_exact,   \* exact key -> position in workflows
    existing_fuzzy,   \* list of <<position in workflows, display key>>
    counters,         \* the coverage and match counters
    drift,            \* the drift Counters
    iter,             \* the locals of the last loop iteration
    call,             \* a direct call of a pure function: its name and arguments
    result,           \* the value that call returned
    files             \* the store file, its snapshot and write_json's temporary files on disk

vars == <<store, reports, pc, runs, hiring_only, instances, pos, workflows,
          existing_exact, existing_fuzzy, counters, drift, iter, call, result, files>>

\* The state of the reconciliation run, without the files of write_json.
run_vars == <<store, reports, pc, runs, hiring_only, instances, pos, workflows,
             existing_exact, existing_fuzzy, counters, drift, iter>>

engine_vars == <<run_vars, files>>

ZeroCounters ==
    [total |-> 0, cov_process |-> 0, cov_client |-> 0, cov_step |-> 0, cov_health |-> 0,
     cov_evidence |-> 0, role_detected |-> 0, role_strict |-> 0, role_other |-> 0,
     role_missing |-> 0, canonical_step_present |-> 0, hiring_total |-> 0,
     non_hiring_missing_process |-> 0, non_hiring_not_hiring |-> 0,
     match_counts |-> [exact |-> 0, fuzzy |-> 0, created |-> 0],
     hiring_written_total |-> 0, hiring_steps_populated |-> 0,
     hiring_phase_known |-> 0, hiring_evidence |-> 0]

ZeroDrift ==
    [client |-> <<>>, role |-> <<>>, process |-> <<>>, step |-> <<>>,
     step_match_failures |-> <<>>]

\* The loop's locals before its first iteration.
NoIter ==
    [instance |-> None, skipped |-> FALSE, exact_key |-> NoKey, display |-> None,
     matched |-> 0, match_type |-> None, match_score |-> <<0, 1>>,
     definition_pid |-> None, current_step_id |-> None, evidence_ids |-> <<>>]

NoReports == [coverage |-> <<>>, reconciliation |-> <<>>, drift |-> <<>>]

\* A path with no file behind it, and directories that hold no file: the
\* store file "persist/workflow_store.json", the snapshot
\* "workflow_store.snapshot.json" of the run directory, and the temporary
\* files write_json made and did not rename, oldest first.
NoFile == [exists |-> FALSE, content |-> <<>>]

NoFiles == [store |-> NoFile, snapshot |-> NoFile, tmps |-> <<>>]

\* json.dump(obj, tmp, indent=2) and tmp.write("\n") on a store document:
\* the pieces of text in the order they reach the file.
document_text(obj) == <<"{">> \o obj.workflows \o <<"}", "\n">>

\* The file holding the whole text of a store document.
FileOf(obj) == [exists |-> TRUE, content |-> document_text(obj)]

\* The same on a report.
report_text(report) == <<"{", report, "}", "\n">>

\* A writer that puts every piece into the store file as well.
write_piece_in_place(fs, piece) ==
    [fs EXCEPT !.store = [exists |-> TRUE, content |-> Append(fs.tmps[Len(fs.tmps)].content, piece)],
               !.tmps[Len(fs.tmps)].content = Append(@, piece)]

\* NamedTemporaryFile("w", dir=tmp_dir, delete=False): a new empty file
\* with a fresh name next to the target.
open_temp(fs) == [fs EXCEPT !.tmps = Append(@, [exists |-> TRUE, content |-> <<>>])]

\* One write to the temporary file that was opened last.
write_piece(fs, piece) == [fs EXCEPT !.tmps[Len(fs.tmps)].content = Append(@, piece)]

\* os.replace(tmp_path, path): the target becomes the temporary file that
\* was opened last; the other temporary files stay.
os_replace(fs, path) ==
    [fs EXCEPT ![path] = fs.tmps[Len(fs.tmps)], !.tmps = SubSeq(@, 1, Len(@) - 1)]

\* The temporary file of a write_json that raised after it wrote the first
\* k pieces of the text.
RECURSIVE WritePieces(_, _)
WritePieces(fs, text) ==
    IF text = <<>> THEN fs ELSE WritePieces(write_piece(fs, Head(text)), Tail(text))

\* write_json(path, obj) that returns, for the text of obj.
write_json(fs, path, text) == os_replace(WritePieces(open_temp(fs), text), path)

\* The directory after a write_json that raised: in lines 15-19 before a
\* temporary file exists, or later with the temporary file left behind
\* (delete=False) holding what was written.
write_json_raised(fs, text) ==
    {fs} \cup {WritePieces(open_temp(fs), SubSeq(text, 1, k)) : k \in 0..Len(text)}

NoCall == [op |-> "none"]

Init ==
    /\ store = <<>>
    /\ reports = NoReports
    /\ pc = "idle"
    /\ runs = 0
    /\ hiring_only = TRUE
    /\ instances = <<>>
    /\ pos = 1
    /\ workflows = <<>>
    /\ existing_exact = <<>>
    /\ existing_fuzzy = <<>>
    /\ counters = ZeroCounters
    /\ drift = ZeroDrift
    /\ iter = NoIter
    /\ call = NoCall
    /\ result = None
    /\ files = NoFiles

(***************************************************************************)
(* reconcile_instances, entered from run_reconciliation.                   *)
(***************************************************************************)

\* Lines 423-486: the working list (the in-scope view of the store when
\* hiring_only is set), the two indices and the zeroed counters.
Begin(list, only) ==
    LET view == scoped_workflows(store, only, hiring_process_keys)
    IN  /\ pc' = "running"
        /\ runs' = runs + 1
        /\ hiring_only' = only
        /\ instances' = list
        /\ pos' = 1
        /\ workflows' = view
        /\ existing_exact' = build_existing_exact(view)
        /\ existing_fuzzy' = build_existing_fuzzy(view)
        /\ counters' = [ZeroCounters EXCEPT !.total = Len(list)]
        /\ drift' = ZeroDrift
        /\ iter' = NoIter
        /\ UNCHANGED <<store, reports, call, result, files>>

\* run_reconciliation reads the instances document and the store and calls
\* reconcile_instances.
StartRun ==
    /\ pc = "idle"
    /\ runs < MaxRuns
    /\ \E list \in InstanceLists, only \in BOOLEAN : Begin(list, only)

\* b as 0 or 1.
Bit(b) == IF b THEN 1 ELSE 0

\* str.strip() on a code-point sequence.
Strip(cs) ==
    LET keep == {i \in 1..Len(cs) : ~IsSpace(cs[i])}
    IN  IF keep = {} THEN <<>>
        ELSE SubSeq(cs, CHOOSE i \in keep : \A j \in keep : i <= j, SetMax(keep))

\* Lines 492-536: the coverage counters after this instance.
Counted(c, inst, evidence_ids, current_step_id) ==
    LET canon_role_norm == IF Truthy(inst.canonical_role)
                           THEN Strip(CodePoints[inst.canonical_role]) ELSE <<>>
        role_present == canon_role_norm # <<>> /\ canon_role_norm # CodePoints["Unknown"]
        role_is_other == canon_role_norm = CodePoints["Other"]
        in_keys == InSeq(inst.canonical_process, hiring_process_keys)
    IN  [c EXCEPT
            !.cov_process = @ + Bit(Truthy(inst.canonical_process)),
            !.cov_client = @ + Bit(Truthy(inst.canonical_client)),
            !.role_detected = @ + Bit(role_present),
            !.role_other = @ + Bit(role_present /\ role_is_other),
            !.role_strict = @ + Bit(role_present /\ ~role_is_other),
            !.role_missing = @ + Bit(~role_present),
            !.cov_evidence = @ + Bit(evidence_ids # <<>>),
            !.cov_health = @ + Bit(inst.health \in {"on_track", "at_risk", "overdue"}),
            !.cov_step = @ + Bit(Truthy(current_step_id)),
            !.canonical_step_present = @ + Bit(inst.canonical_current_step_id # None),
            !.hiring_total = @ + Bit(in_keys),
            !.non_hiring_missing_process = @ + Bit(~in_keys /\ ~Truthy(inst.canonical_process)),
            !.non_hiring_not_hiring = @ + Bit(~in_keys /\ Truthy(inst.canonical_process))]

\* Lines 524-528, 540-548 and 669-678: the drift Counters after this instance
\* (the same updates whether or not the instance is written).
Drifted(d, inst, current_step_id) ==
    [client |-> CounterAddIf(d.client,
                    ~Truthy(inst.canonical_client) /\ Truthy(inst.candidate_client_raw),
                    inst.candidate_client_raw),
     role |-> CounterAddIf(d.role,
                    ~_is_known_role(inst.canonical_role) /\ Truthy(inst.candidate_role_raw),
                    inst.candidate_role_raw),
     process |-> CounterAddIf(d.process,
                    ~Truthy(inst.canonical_process) /\ Truthy(inst.candidate_process_raw),
                    inst.candidate_process_raw),
     step |-> CounterAddIf(d.step,
                    Truthy(inst.state.step) /\ ~Truthy(current_step_id), Str(inst.state.step)),
     step_match_failures |-> CounterAddIf(d.step_match_failures,
                    inst.canonical_current_step_match_type = "none" /\ Truthy(inst.state.step),
                    Str(inst.state.step))]

\* A variant of the written counters that counts an updated workflow as
\* written only when it was created in the run.
CountedWritten_created_only(c, match_type, steps, phase_id, evidence_ids) ==
    [c EXCEPT
        !.match_counts[match_type] = @ + 1,
        !.hiring_written_total = @ + Bit(match_type = "created"),
        !.hiring_steps_populated = @ + Bit(steps # NoList),
        !.hiring_phase_known = @ + Bit(phase_id # "unknown"),
        !.hiring_evidence = @ + Bit(evidence_ids # <<>>)]

\* Lines 606-634: the match and written-workflow counters.
CountedWritten(c, match_type, steps, phase_id, evidence_ids) ==
    [c EXCEPT
        !.match_counts[match_type] = @ + 1,
        !.hiring_written_total = @ + 1,
        !.hiring_steps_populated = @ + Bit(steps # NoList),
        !.hiring_phase_known = @ + Bit(phase_id # "unknown"),
        !.hiring_evidence = @ + Bit(evidence_ids # <<>>)]

\* Lines 636-667: the matched workflow with the instance's fields written.
Written(old, inst, phase_id, steps, phases, evidence_ids, match_type, match_score) ==
    LET role == Or(inst.canonical_role, Or(inst.candidate_role_raw, inst.candidate_role))
        client == Or(inst.canonical_client, Or(inst.candidate_client_raw, inst.candidate_client))
    IN  [old EXCEPT
            !.process_id = Or(inst.canonical_process, "unknown"),
            !.phase_id = phase_id,
            !.client = client,
            !.role = role,
            !.display_name = _display_name(role, client),
            !.steps = steps,
            !.phases = phases,
            !.observability =
                [@ EXCEPT
                    !.source_instance_key = inst.instance_key,
                    !.last_updated_at = _choose_latest_ts(@, inst.state.last_updated_at),
                    !.confidence = inst.state.confidence,
                    !.health = Or(inst.health, "unknown"),
                    !.evidence_message_ids = _merge_evidence_ids(@, evidence_ids,
                                                                 max_ids_per_instance),
                    !.canonical_process = inst.canonical_process,
                    !.canonical_client = inst.canonical_client,
                    !.canonical_role = inst.canonical_role,
                    !.reconciliation = [match_type |-> match_type,
                                        match_score |-> Round4(match_score),
                                        matched_workflow_id |-> old.workflow_id]]]

\* Lines 551-667 for an instance that is written: match or create, infer,
\* update.  found is the result of the match, 0 for no workflow.
WriteInstance(inst, evidence_ids, definition_pid, current_step_id, exact_key, display, found) ==
    \E created \in {found[1] = 0},
       matched \in {IF found[1] = 0 THEN Len(workflows) + 1 ELSE found[1]},
       match_score \in {IF found[1] = 0 THEN <<1, 1>> ELSE found[3]},
       phase_id \in {infer_phase_id(definition_pid, current_step_id, definition)},
       steps \in {IF positional_enabled
                  THEN infer_steps_from_position(definition_pid, definition, current_step_id,
                                                 inst.state.status, completed_label_default)
                  ELSE NoList},
       workflow_id \in {generate_workflow_id(
                           inst.canonical_process, inst.canonical_client, inst.canonical_role,
                           inst.instance_key, inst.candidate_client_raw,
                           inst.candidate_role_raw)} :
    \E phases \in {IF positional_enabled
                   THEN infer_phases_from_steps(definition_pid, definition, steps,
                                                completed_label_default)
                   ELSE NoList},
       working \in {IF created THEN Append(workflows, NewWorkflow(workflow_id))
                    ELSE workflows} :
        /\ workflows' = [working EXCEPT
                            ![matched] = Written(@, inst, phase_id, steps, phases,
                                                 evidence_ids, found[2], match_score)]
        /\ existing_fuzzy' = IF created
                             THEN Append(existing_fuzzy, <<matched, display>>)
                             ELSE existing_fuzzy
        /\ existing_exact' = IF created
                             THEN register_exact(existing_exact, exact_key, matched)
                             ELSE existing_exact
        /\ counters' = CountedWritten(Counted(counters, inst, evidence_ids, current_step_id),
                                      found[2], steps, phase_id, evidence_ids)
        /\ iter' = [instance |-> instances[pos], skipped |-> FALSE,
                    exact_key |-> exact_key, display |-> display,
                    matched |-> matched, match_type |-> found[2],
                    match_score |-> match_score,
                    definition_pid |-> definition_pid,
                    current_step_id |-> current_step_id,
                    evidence_ids |-> evidence_ids]

\* One iteration of `for inst in instances` (lines 488-678).  An exception
\* leaves reconcile_instances and run_reconciliation: nothing is written.
ProcessInstance ==
    /\ pc = "running"
    /\ pos <= Len(instances)
    /\ \E inst \in {InstanceById[instances[pos]]} :
       IF extract_raises(inst)
       THEN /\ pc' = "raised"
            /\ UNCHANGED <<pos, workflows, existing_exact, existing_fuzzy, counters,
                           drift, iter>>
       ELSE /\ pc' = pc
            /\ pos' = pos + 1
            /\ \E evidence_ids \in {_extract_evidence_ids(inst, timeline_by_instance,
                                                             max_ids_per_instance, timeline_fallback_max)},
                     definition_pid \in {resolve_definition_process_id(inst.canonical_process, definition,
                                                                       hiring_process_keys)},
                     exact_key \in {instance_exact_key(inst)},
                     display \in {_display_key(Or(inst.canonical_role, inst.candidate_role_raw),
                                               Or(inst.canonical_client, inst.candidate_client_raw),
                                               Or(inst.canonical_process, "unknown"))} :
                  \E current_step_id \in {derive_current_step_id(inst, definition_pid, definition)} :
                     /\ drift' = Drifted(drift, inst, current_step_id)
                     /\ IF skips_writes(hiring_only, inst.canonical_process, hiring_process_keys)
                        THEN \* lines 538-549: counted, not written
                             /\ counters' = Counted(counters, inst, evidence_ids, current_step_id)
                             /\ iter' = [NoIter EXCEPT !.instance = instances[pos], !.skipped = TRUE,
                                                       !.definition_pid = definition_pid,
                                                       !.current_step_id = current_step_id,
                                                       !.evidence_ids = evidence_ids]
                             /\ UNCHANGED <<workflows, existing_exact, existing_fuzzy>>
                        ELSE \E found \in {match_existing(exact_key, display,
                                                          existing_exact, existing_fuzzy)} :
                                 WriteInstance(inst, evidence_ids, definition_pid, current_step_id,
                                               exact_key, display, found)
    /\ UNCHANGED <<store, reports, runs, hiring_only, instances, call, result, files>>

\* Lines 680-729: the coverage, reconciliation and drift reports
\* reconcile_instances returns (their updated_at stamps, read from the
\* clock, are left out).
built_reports ==
    [coverage |->
        [global |->
            [incoming_total |-> counters.total,
             canonical_process_pct |-> _coverage_pct(counters.cov_process, counters.total),
             canonical_client_pct |-> _coverage_pct(counters.cov_client, counters.total),
             current_step_pct |-> _coverage_pct(counters.cov_step, counters.total),
             health_known_pct |-> _coverage_pct(counters.cov_health, counters.total),
             evidence_ids_pct |-> _coverage_pct(counters.cov_evidence, counters.total),
             canonical_current_step_id_pct |->
                 _coverage_pct(counters.canonical_step_present, counters.total),
             role_metrics |->
                [role_detected_pct |-> _coverage_pct(counters.role_detected, counters.total),
                 role_canonical_strict_pct |->
                     _coverage_pct(counters.role_strict, counters.total),
                 role_other_pct |-> _coverage_pct(counters.role_other, counters.total),
                 role_missing_pct |-> _coverage_pct(counters.role_missing, counters.total)]],
         hiring_funnel |->
            [incoming_hiring_total |-> counters.hiring_total,
             incoming_non_hiring_total |-> counters.total - counters.hiring_total,
             pct_hiring_among_total |-> _coverage_pct(counters.hiring_total, counters.total),
             pct_hiring_among_known_process |->
                 _coverage_pct(counters.hiring_total, counters.cov_process),
             missing_canonical_process |-> counters.non_hiring_missing_process,
             canonical_process_not_hiring |-> counters.non_hiring_not_hiring],
         hiring_reconciliation |->
            [hiring_written_total |-> counters.hiring_written_total,
             match_counts |-> counters.match_counts,
             steps_list_pct |-> _coverage_pct(counters.hiring_steps_populated,
                                              counters.hiring_written_total),
             phase_known_pct |-> _coverage_pct(counters.hiring_phase_known,
                                               counters.hiring_written_total),
             evidence_ids_pct |-> _coverage_pct(counters.hiring_evidence,
                                                counters.hiring_written_total)]],
     reconciliation |->
        [workflows_written |-> counters.hiring_written_total,
         match_counts |-> counters.match_counts],
     drift |->
        [candidate_client_raw |-> top(drift.client),
         candidate_role_raw |-> top(drift.role),
         candidate_process_raw |-> top(drift.process),
         raw_steps_unmatched |-> top(drift.step),
         canonical_step_match_failures |-> top(drift.step_match_failures)]]

\* run_reconciliation lines 792-806: the five write_json calls in order, the
\* store file, its snapshot and the three reports.
WriteCalls == <<"store", "snapshot", "coverage", "reconciliation", "drift">>

\* The text of the n-th write_json call.
WrittenText(n, store_obj, built) ==
    IF n <= 2 THEN document_text(store_obj) ELSE report_text(built[WriteCalls[n]])

\* The store file and the snapshot after the first n write_json calls have
\* returned.
RECURSIVE AfterWrites(_, _, _)
AfterWrites(fs, n, store_obj) ==
    IF n = 0 THEN fs
    ELSE IF n > 2 THEN AfterWrites(fs, 2, store_obj)
    ELSE write_json(AfterWrites(fs, n - 1, store_obj), WriteCalls[n], document_text(store_obj))

\* Lines 680-731 and run_reconciliation lines 788-806: the reports are built,
\* the returned list becomes the store's workflow list, the store, its
\* snapshot and the reports are written one after the other.  The first
\* write_json call that raises ends the run: the files written before it are
\* new, the others are as they were; `failed` is its number, 0 when none
\* raises.  The run directory is the same in every run.
FinishRun ==
    /\ pc = "running"
    /\ pos > Len(instances)
    /\ \E built \in {built_reports}, store_obj \in {[version |-> 1, workflows |-> workflows]},
          failed \in 0..Len(WriteCalls) :
        /\ store' = IF failed = 1 THEN store ELSE workflows
        /\ reports' = [name \in {"coverage", "reconciliation", "drift"} |->
                          IF failed = 0 \/ \E n \in 1..(failed - 1) : WriteCalls[n] = name
                          THEN built[name] ELSE reports[name]]
        /\ IF failed = 0 THEN files' = AfterWrites(files, Len(WriteCalls), store_obj)
           ELSE files' \in write_json_raised(AfterWrites(files, failed - 1, store_obj),
                                             WrittenText(failed, store_obj, built))
        /\ pc' = IF failed = 0 THEN "idle" ELSE "write_raised"
    /\ workflows' = <<>>
    /\ existing_exact' = <<>>
    /\ existing_fuzzy' = <<>>
    /\ counters' = ZeroCounters
    /\ drift' = ZeroDrift
    /\ iter' = NoIter
    /\ pos' = 1
    /\ UNCHANGED <<runs, hiring_only, instances, call, result>>

Next == StartRun \/ ProcessInstance \/ FinishRun

Spec == Init /\ [][Next]_vars

(***************************************************************************)
(* Re-running the engine: a first run from the empty store, then the same  *)
(* instance list under the same configuration on the store it wrote.       *)
(***************************************************************************)

\* Longest instance list of a re-run behaviour.
MaxRerunInstances == 3

RerunLists == UNION {[1..n -> InstanceIds] : n \in 0..MaxRerunInstances}

FirstRun ==
    /\ pc = "idle"
    /\ runs = 0
    /\ \E list \in RerunLists, only \in BOOLEAN : Begin(list, only)

\* The run directory still holds the instances document and the
\* configuration is the same.
Rerun ==
    /\ pc = "idle"
    /\ runs = 1
    /\ Begin(instances, hiring_only)

NextRerun == FirstRun \/ ProcessInstance \/ FinishRun \/ Rerun

SpecRerun == Init /\ [][NextRerun]_vars

(***************************************************************************)
(* A chain of runs under the default scope: each run reads the store the   *)
(* run before it wrote.                                                    *)
(***************************************************************************)

\* Runs per chain, instances per run, and the instances the runs draw from:
\* the three recruiting instances whose roles are pairwise similar.
MaxChainRuns == 3
MaxChainInstances == 2
ChainIds == {"I1", "I2", "I3"}
ChainLists == UNION {[1..n -> ChainIds] : n \in 0..MaxChainInstances}

ChainRun ==
    /\ pc = "idle"
    /\ runs < MaxChainRuns
    /\ \E list \in ChainLists : Begin(list, TRUE)

NextChain == ChainRun \/ ProcessInstance \/ FinishRun

SpecChain == Init /\ [][NextChain]_vars

(***************************************************************************)
(* A run under the default scope on a persisted store that holds a         *)
(* workflow with the legacy process_id "hiring".                           *)
(***************************************************************************)

MaxMigrateRuns == 1

InitMigrate ==
    /\ store \in LegacyStores
    /\ reports = NoReports
    /\ pc = "idle"
    /\ runs = 0
    /\ hiring_only = TRUE
    /\ instances = <<>>
    /\ pos = 1
    /\ workflows = <<>>
    /\ existing_exact = <<>>
    /\ existing_fuzzy = <<>>
    /\ counters = ZeroCounters
    /\ drift = ZeroDrift
    /\ iter = NoIter
    /\ call = NoCall
    /\ result = None
    /\ files = [NoFiles EXCEPT !.store = FileOf([version |-> 1, workflows |-> store])]

\* scope.hiring_only and scope.hiring_process_keys take their defaults.
MigrateRun ==
    /\ pc = "idle"
    /\ runs < MaxMigrateRuns
    /\ \E list \in InstanceLists : Begin(list, TRUE)

NextMigrate == MigrateRun \/ ProcessInstance \/ FinishRun

SpecMigrate == InitMigrate /\ [][NextMigrate]_vars

(***************************************************************************)
(* Runs on instances with missing fields: a first run that leaves the      *)
(* store empty or holding the workflow of I1, then a run on I1 without any *)
(* subset of its fields, or on an instance with a malformed evidence list. *)
(***************************************************************************)

MaxSparseRuns == 2

SparseLists == {<<id>> : id \in SparseIds \cup MalformedIds}

SparseRun ==
    /\ pc = "idle"
    /\ runs < MaxSparseRuns
    /\ \/ /\ runs + 1 < MaxSparseRuns
          /\ \E list \in {<<>>, <<"I1">>} : Begin(list, TRUE)
       \/ /\ runs + 1 = MaxSparseRuns
          /\ \E list \in SparseLists, only \in BOOLEAN : Begin(list, only)

NextSparse == SparseRun \/ ProcessInstance \/ FinishRun

SpecSparse == Init /\ [][NextSparse]_vars

(***************************************************************************)
(* Direct calls of the pure functions, on arguments drawn from small sets:  *)
(* a behaviour makes one call and holds its arguments and its result.      *)
(***************************************************************************)

\* Evidence-id lists: ids (the empty id among them) in lists of bounded length.
EvidenceIds == {"", "m1", "m2", "m3"}
MaxIdListLen == 2
IdLists == UNION {[1..n -> EvidenceIds] : n \in 0..MaxIdListLen}

\* The caps a call of _merge_evidence_ids is given: 0..MaxCap.
MaxCap == 3

CallMergeEvidenceIds ==
    /\ call = NoCall
    /\ \E existing \in IdLists, incoming \in IdLists, max_ids \in 0..MaxCap :
          /\ call' = [op |-> "_merge_evidence_ids", existing |-> existing,
                      incoming |-> incoming, max_ids |-> max_ids]
          /\ result' = _merge_evidence_ids(existing, incoming, max_ids)
    /\ UNCHANGED engine_vars

\* Argument tuples of generate_workflow_id: <<canonical_process,
\* canonical_client, canonical_role, instance_key, raw_client, raw_role>>.
IdArgs ==
    {None, "", "recruiting"} \X {None, "Altum"} \X {None, "AI Engineer"}
    \X {None, "thread:1", "thread:2"} \X {None, "Altum", "Globex"} \X {None, "AI Engineer"}

\* Two calls, so that their results can be compared.
CallGenerateWorkflowId ==
    /\ call = NoCall
    /\ \E a \in IdArgs, b \in IdArgs :
          /\ call' = [op |-> "generate_workflow_id", a |-> a, b |-> b]
          /\ result' = <<generate_workflow_id(a[1], a[2], a[3], a[4], a[5], a[6]),
                         generate_workflow_id(b[1], b[2], b[3], b[4], b[5], b[6])>>
    /\ UNCHANGED engine_vars

CallInferStepsFromPosition ==
    /\ call = NoCall
    /\ \E process_id \in {None, "", "recruiting", "onboarding", "delivery"},
          current_step_id \in {None, "", "s1", "s2", "s3", "o1"},
          status \in {None, "", "blocked", "Blocked", "BLOCKED", "done", "Done",
                      "completed", "in_progress", "waiting"},
          completed_label \in {"completed_inferred", "completed"} :
          /\ call' = [op |-> "infer_steps_from_position", process_id |-> process_id,
                      current_step_id |-> current_step_id, status |-> status,
                      completed_label |-> completed_label]
          /\ result' = infer_steps_from_position(process_id, definition, current_step_id,
                                                 status, completed_label)
    /\ UNCHANGED engine_vars

\* Step lists given to infer_phases_from_steps: entries {id, name, status} with
\* the step ids of the definition and the statuses a step list can carry
\* (None for an entry without a status), in lists of bounded length.
MaxStepListLen == 2

StepEntries ==
    {[id |-> id, name |-> None, status |-> st] :
        id \in {"s1", "s2", "s3", "o1"},
        st \in {None, "completed", "completed_inferred", "in_progress", "blocked",
                "not_started"}}

StepLists == UNION {[1..n -> StepEntries] : n \in 0..MaxStepListLen}

CallInferPhasesFromSteps ==
    /\ call = NoCall
    /\ \E process_id \in {None, "", "recruiting", "onboarding", "delivery"},
          steps \in StepLists,
          completed_label \in {"completed_inferred", "completed"} :
          /\ call' = [op |-> "infer_phases_from_steps", process_id |-> process_id,
                      steps |-> steps, completed_label |-> completed_label]
          /\ result' = infer_phases_from_steps(process_id, definition, steps, completed_label)
    /\ UNCHANGED engine_vars

NextPure ==
    \/ CallMergeEvidenceIds \/ CallGenerateWorkflowId \/ CallInferStepsFromPosition
    \/ CallInferPhasesFromSteps

SpecPure == Init /\ [][NextPure]_vars

(***************************************************************************)
(* Text normalizer and canonicalizer (src/src/demo/catalog/normalize.py,   *)
(* src/src/demo/catalog/canonicalize.py).  Normalized texts are code-point *)
(* sequences; the canonicalizers return catalog strings.                   *)
(***************************************************************************)

\* string.punctuation
IsPunct(c) == (c >= 33 /\ c <= 47) \/ (c >= 58 /\ c <= 64) \/ (c >= 91 /\ c <= 96) \/ (c >= 123 /\ c <= 126)

\* The characters of canonicalize.py's _PUNCT_TABLE: , . ; : ( ) [ ] { } < > / \ |
IsTokenPunct(c) == c \in {44, 46, 59, 58, 40, 41, 91, 93, 123, 125, 60, 62, 47, 92, 124}

\* _SPACE_RE.sub(" ", s): every run of whitespace becomes one space.
RECURSIVE CollapseSpaces(_, _, _)
CollapseSpaces(cs, i, out) ==
    IF i > Len(cs) THEN out
    ELSE IF IsSpace(cs[i])
         THEN IF i > 1 /\ IsSpace(cs[i - 1]) THEN CollapseSpaces(cs, i + 1, out)
              ELSE CollapseSpaces(cs, i + 1, Append(out, 32))
    ELSE CollapseSpaces(cs, i + 1, Append(out, cs[i]))

\* A normalizer that collapses the whitespace before it turns "_", "-" and
\* the punctuation into spaces.
normalize_chars_collapse_first(cs) ==
    LET collapsed == CollapseSpaces(Lower(cs), 1, <<>>)
        translated == [i \in 1..Len(collapsed) |-> IF IsPunct(collapsed[i]) THEN 32 ELSE collapsed[i]]
    IN  Strip(translated)

\* normalize_text on the characters of a string: lower(), "_" and "-" to
\* space, punctuation to space, whitespace runs collapsed, strip().
normalize_chars(cs) ==
    LET lowered == Lower(cs)
        replaced == [i \in 1..Len(cs) |-> IF lowered[i] \in {95, 45} THEN 32 ELSE lowered[i]]
        translated == [i \in 1..Len(cs) |-> IF IsPunct(replaced[i]) THEN 32 ELSE replaced[i]]
    IN  Strip(CollapseSpaces(translated, 1, <<>>))

\* normalize_text
normalize_text(value) == IF value = None THEN <<>> ELSE normalize_chars(CodePoints[value])

\* norm_text: " ".join(s.strip().split()).lower()
norm_text(s) == IF s = None THEN <<>> ELSE Lower(JoinSplit(Strip(CodePoints[s]), 1, <<>>))

\* norm_tokenish: the table's punctuation to space, whitespace collapsed,
\* strip(), lower().
norm_tokenish(s) ==
    IF s = None THEN <<>>
    ELSE LET cs == CodePoints[s]
             translated == [i \in 1..Len(cs) |-> IF IsTokenPunct(cs[i]) THEN 32 ELSE cs[i]]
         IN  Lower(Strip(CollapseSpaces(translated, 1, <<>>)))

\* _unique: the first occurrences, in order.
RECURSIVE _unique(_)
_unique(values) ==
    IF values = <<>> THEN <<>>
    ELSE LET init == _unique(SubSeq(values, 1, Len(values) - 1))
             v == values[Len(values)]
         IN  IF InSeq(v, init) THEN init ELSE Append(init, v)

\* The least element of a non-empty set of positions: where a `for` loop
\* that returns on its first hit stops.
First(S) == CHOOSE i \in S : \A j \in S : i <= j

\* any(P(x) for x in s), for the alias lists.
AnyAlias(aliases, raw_norm) == \E j \in 1..Len(aliases) : raw_norm = normalize_text(aliases[j])

\* Lines 61-66: the process is appended once for every alias that contains
\* the raw text or is contained in it.
SubstringHits(spec, raw_norm) ==
    Flatten([j \in 1..Len(spec.process_aliases) |->
        LET an == normalize_text(spec.process_aliases[j])
        IN  IF an # <<>> /\ (Contains(an, raw_norm) \/ Contains(raw_norm, an))
            THEN <<spec.process_id>> ELSE <<>>])

\* A variant of canonicalize_process whose ladder starts at the aliases.
canonicalize_process_alias_first(process_raw, process_catalog) ==
    IF ~Truthy(process_raw) THEN None
    ELSE LET raw_norm == normalize_text(process_raw)
             n == Len(process_catalog)
             by_alias == {i \in 1..n : AnyAlias(process_catalog[i].process_aliases, raw_norm)}
             by_key == {i \in 1..n : raw_norm = normalize_text(process_catalog[i].process_id)}
         IN  IF raw_norm = <<>> THEN None
             ELSE IF by_alias # {} THEN process_catalog[First(by_alias)].process_id
             ELSE IF by_key # {} THEN process_catalog[First(by_key)].process_id
             ELSE None

\* canonicalize_process
canonicalize_process(process_raw, process_catalog) ==
    IF ~Truthy(process_raw) THEN None
    ELSE LET raw_norm == normalize_text(process_raw)
             n == Len(process_catalog)
             by_key == {i \in 1..n : raw_norm = normalize_text(process_catalog[i].process_id)}
             by_name == {i \in 1..n : raw_norm = normalize_text(process_catalog[i].display_name)}
             by_alias == {i \in 1..n : AnyAlias(process_catalog[i].process_aliases, raw_norm)}
             candidates == _unique(Flatten([i \in 1..n |-> SubstringHits(process_catalog[i], raw_norm)]))
         IN  IF raw_norm = <<>> THEN None
             ELSE IF by_key # {} THEN process_catalog[First(by_key)].process_id
             ELSE IF by_name # {} THEN process_catalog[First(by_name)].process_id
             ELSE IF by_alias # {} THEN process_catalog[First(by_alias)].process_id
             ELSE IF Len(candidates) = 1 THEN candidates[1]
             ELSE None

\* The string with the given characters.
StrOf(cs) == CHOOSE s \in DOMAIN CodePoints : CodePoints[s] = cs

\* " ".join(w.capitalize() for w in raw_norm.split()) on a text that
\* norm_text has lower-cased and single-spaced: the first letter of every
\* word in upper case.
TitleCase(raw_norm) ==
    [i \in 1..Len(raw_norm) |->
        IF (i = 1 \/ raw_norm[i - 1] = 32) /\ raw_norm[i] >= 97 /\ raw_norm[i] <= 122
        THEN raw_norm[i] - 32 ELSE raw_norm[i]]

\* [c.name] + c.aliases
ClientTokens(c) == <<c.name>> \o c.aliases

\* canonicalize_client
canonicalize_client(client_raw, clients_catalog) ==
    IF client_raw = None THEN None
    ELSE LET raw_norm == norm_text(client_raw)
             raw_tok == norm_tokenish(client_raw)
             n == Len(clients_catalog)
             by_name == {i \in 1..n : raw_norm = norm_text(clients_catalog[i].name)}
             by_alias == {i \in 1..n : \E j \in 1..Len(clients_catalog[i].aliases) :
                              raw_norm = norm_text(clients_catalog[i].aliases[j])}
             candidates == _unique(Flatten([i \in 1..n |->
                 IF \E j \in 1..Len(ClientTokens(clients_catalog[i])) :
                        LET tn == norm_text(ClientTokens(clients_catalog[i])[j])
                        IN  Contains(tn, raw_norm) \/ Contains(raw_norm, tn)
                 THEN <<clients_catalog[i].name>> ELSE <<>>]))
             tok_hits == _unique(Flatten([i \in 1..n |->
                 IF \E j \in 1..Len(ClientTokens(clients_catalog[i])) :
                        LET t == norm_tokenish(ClientTokens(clients_catalog[i])[j])
                        IN  t # <<>> /\ (Contains(t, raw_tok) \/ Contains(raw_tok, t))
                 THEN <<clients_catalog[i].name>> ELSE <<>>]))
         IN  IF by_name # {} THEN clients_catalog[First(by_name)].name
             ELSE IF by_alias # {} THEN clients_catalog[First(by_alias)].name
             ELSE IF Len(candidates) = 1 THEN candidates[1]
             ELSE IF Len(tok_hits) = 1 THEN tok_hits[1]
             ELSE StrOf(TitleCase(raw_norm))

\* canonicalize_role
canonicalize_role(role_raw, roles) ==
    IF role_raw = None \/ Strip(CodePoints[role_raw]) = <<>> THEN "Unknown"
    ELSE LET raw_norm == norm_text(role_raw)
             by_canonical == {i \in 1..Len(roles.canonical) : raw_norm = norm_text(roles.canonical[i])}
             by_alias == {i \in 1..Len(roles.aliases) : \E j \in 1..Len(roles.aliases[i].aliases) :
                              raw_norm = norm_text(roles.aliases[i].aliases[j])}
         IN  IF by_canonical # {} THEN roles.canonical[First(by_canonical)]
             ELSE IF by_alias # {} THEN roles.aliases[First(by_alias)].canon
             ELSE "Other"

\* A catalog that could not be loaded is None (pass2.py lines 376-385); the
\* lists stand for catalog objects, which are truthy also when empty.
NoCatalog == <<[none |-> TRUE]>>
NoRoles == [none |-> TRUE]

\* `if catalog:` for a process or clients catalog.
Loaded(catalog) == ~(Len(catalog) = 1 /\ DOMAIN catalog[1] = {"none"})

\* `k in process_catalog.processes` and process_catalog.processes[k]
InCatalog(k, process_catalog) == \E i \in 1..Len(process_catalog) : process_catalog[i].process_id = k
ProcessSpec(k, process_catalog) ==
    process_catalog[CHOOSE i \in 1..Len(process_catalog) : process_catalog[i].process_id = k]

\* Lines 145 and 148: the result for a missing step text or process.
NoMatchBare == [step_id |-> None, match_type |-> "none", score |-> <<0, 1>>]

\* Lines 153 and 204: the result when nothing matches.
NoMatch == [step_id |-> None, match_type |-> "none", score |-> <<0, 1>>, matched_alias |-> None]

\* A variant of the containment tier that also takes a catalog text which
\* contains the raw text.
ContainmentHits_either_way(spec, step_n) ==
    Flatten([i \in 1..Len(spec.steps) |->
        LET sn == normalize_text(spec.steps[i])
        IN  IF Contains(sn, step_n) \/ Contains(step_n, sn)
            THEN <<[step |-> spec.steps[i], alias |-> spec.steps[i], n |-> Len(sn)]>> ELSE <<>>])
    \o Flatten([i \in 1..Len(spec.step_aliases) |->
        Flatten([j \in 1..Len(spec.step_aliases[i].aliases) |->
            LET an == normalize_text(spec.step_aliases[i].aliases[j])
            IN  IF Contains(an, step_n) \/ Contains(step_n, an)
                THEN <<[step |-> spec.step_aliases[i].step, alias |-> spec.step_aliases[i].aliases[j],
                        n |-> Len(an)]>>
                ELSE <<>>])])

\* Lines 175-192: the containment hits in the order the loops find them,
\* first the steps, then the aliases of every step; n is the length of the
\* normalized catalog text.
ContainmentHits(spec, step_n) ==
    Flatten([i \in 1..Len(spec.steps) |->
        LET sn == normalize_text(spec.steps[i])
        IN  IF Contains(sn, step_n)
            THEN <<[step |-> spec.steps[i], alias |-> spec.steps[i], n |-> Len(sn)]>> ELSE <<>>])
    \o Flatten([i \in 1..Len(spec.step_aliases) |->
        Flatten([j \in 1..Len(spec.step_aliases[i].aliases) |->
            LET an == normalize_text(spec.step_aliases[i].aliases[j])
            IN  IF Contains(an, step_n)
                THEN <<[step |-> spec.step_aliases[i].step, alias |-> spec.step_aliases[i].aliases[j],
                        n |-> Len(an)]>>
                ELSE <<>>])])

\* Line 196: max(0.01, min(1.0, num / den)) as a fraction.
ClampScore(num, den) ==
    IF num >= den THEN <<1, 1>>
    ELSE IF num * 100 < den THEN <<1, 100>>
    ELSE <<num, den>>

\* Lines 193-205: the fuzzy result from the containment hits.  The score of
\* a step is the largest length ratio over its hits, its matched alias the
\* text of its last hit.
FuzzyResult(hits, step_n) ==
    LET candidates == _unique([h \in 1..Len(hits) |-> hits[h].step])
        mine == {h \in 1..Len(hits) : hits[h].step = candidates[1]}
    IN  IF Len(candidates) = 1
        THEN [step_id |-> candidates[1], match_type |-> "fuzzy",
              score |-> ClampScore(SetMax({hits[h].n : h \in mine}), SetMax({Len(step_n), 1})),
              matched_alias |-> hits[SetMax(mine)].alias]
        ELSE NoMatch

\* Lines 161-170: the (step, alias) positions whose alias equals the raw
\* text after normalize_text, and the first of them in loop order.
AliasHits(spec, step_n) ==
    {p \in {<<i, j>> : i \in 1..Len(spec.step_aliases), j \in 1..SetMax({0} \cup {Len(spec.step_aliases[k].aliases) : k \in 1..Len(spec.step_aliases)})} :
        /\ p[2] <= Len(spec.step_aliases[p[1]].aliases)
        /\ step_n = normalize_text(spec.step_aliases[p[1]].aliases[p[2]])}
FirstAliasHit(S) == CHOOSE p \in S : \A r \in S : p[1] < r[1] \/ (p[1] = r[1] /\ p[2] <= r[2])

\* match_step(step_raw, canonical_process, process_catalog, return_details=True)
match_step(step_raw, canonical_process, process_catalog) ==
    IF ~Truthy(step_raw) \/ ~Truthy(canonical_process) THEN NoMatchBare
    ELSE IF ~InCatalog(canonical_process, process_catalog) THEN NoMatchBare
    ELSE LET spec == ProcessSpec(canonical_process, process_catalog)
             step_n == normalize_text(step_raw)
             exact == {i \in 1..Len(spec.steps) : norm_text(step_raw) = norm_text(spec.steps[i])}
             alias == AliasHits(spec, step_n)
         IN  IF step_n = <<>> THEN NoMatch
             ELSE IF exact # {}
                  THEN [step_id |-> spec.steps[First(exact)], match_type |-> "exact",
                        score |-> <<1, 1>>, matched_alias |-> None]
             ELSE IF alias # {}
                  THEN [step_id |-> spec.step_aliases[FirstAliasHit(alias)[1]].step, match_type |-> "alias",
                        score |-> <<1, 1>>,
                        matched_alias |-> spec.step_aliases[FirstAliasHit(alias)[1]].aliases[FirstAliasHit(alias)[2]]]
             ELSE FuzzyResult(ContainmentHits(spec, step_n), step_n)

(***************************************************************************)
(* The catalogs and raw texts the canonicalizers are applied to.            *)
(***************************************************************************)

\* The catalog entries (CatalogProcess), by process key.
CatalogProcesses ==
    ("recruiting" :> [process_id |-> "recruiting", display_name |-> "Recruiting", owner |-> "Talent",
         steps |-> <<"role-details", "sourcing", "offer">>,
         process_aliases |-> <<"recruitment", "hiring", "recruiting pipeline">>,
         step_aliases |-> <<[step |-> "role-details", aliases |-> <<"Role Details", "Role">>], [step |-> "sourcing", aliases |-> <<"Sourcing", "intro">>], [step |-> "offer", aliases |-> <<"Offer Sent", "intro">>]>>,
         health |-> [at_risk_after_days |-> 7, overdue_after_days |-> 14]])
    @@ ("client_onboarding" :> [process_id |-> "client_onboarding", display_name |-> "Client Onboarding", owner |-> None,
         steps |-> <<"kick-off", "setup">>,
         process_aliases |-> <<"onboarding", "delivery", "shipping setup">>,
         step_aliases |-> <<[step |-> "kick-off", aliases |-> <<"Kickoff Call", "setup">>], [step |-> "setup", aliases |-> <<"Account Setup", "kick off", "call">>]>>,
         health |-> [at_risk_after_days |-> 3, overdue_after_days |-> 5]])
    @@ ("delivery" :> [process_id |-> "delivery", display_name |-> "Delivery", owner |-> "Ops",
         steps |-> <<"build">>,
         process_aliases |-> <<"onboarding", "shipping">>,
         step_aliases |-> <<>>,
         health |-> [at_risk_after_days |-> 7, overdue_after_days |-> 14]])

\* The recruiting entry compile_recruiting builds from a workflow definition
\* whose recruiting process has no phases, with an override that lists an
\* alias for the step offer (compiler.py lines 44-58 and 74-80): no steps,
\* and a step alias for a step the process does not list.
RecruitingWithoutSteps ==
    [CatalogProcesses["recruiting"] EXCEPT
        !.steps = <<>>,
        !.process_aliases = <<"recruiting", "recruitment", "hiring", "recruiting pipeline">>,
        !.step_aliases = <<[step |-> "offer", aliases |-> <<"Offer Sent">>]>>]

\* ProcessCatalog.processes: a dict, here the sequence of its entries in
\* insertion order.  The same entries are taken in two orders, and once with
\* the recruiting process without steps.
ProcessCatalogs ==
    {[i \in 1..3 |-> CatalogProcesses[<<"recruiting", "client_onboarding", "delivery">>[i]]],
     [i \in 1..3 |-> CatalogProcesses[<<"delivery", "client_onboarding", "recruiting">>[i]]],
     <<RecruitingWithoutSteps, CatalogProcesses["client_onboarding"], CatalogProcesses["delivery"]>>}

\* ClientsCatalog.clients: entries with a name and aliases, in two orders.
ClientEntries ==
    ("Acme Inc" :> [name |-> "Acme Inc", aliases |-> <<"acme", "Globex">>])
    @@ ("Globex" :> [name |-> "Globex", aliases |-> <<"Globex Corp", "GLX">>])
    @@ ("Altum" :> [name |-> "Altum", aliases |-> <<"altum.ai", "GLX">>])

ClientsCatalogs ==
    {[i \in 1..3 |-> ClientEntries[<<"Acme Inc", "Globex", "Altum">>[i]]],
     [i \in 1..3 |-> ClientEntries[<<"Altum", "Globex", "Acme Inc">>[i]]]}

\* RolesCatalog: the canonical roles and the alias lists by canonical role.
roles_catalog ==
    [canonical |-> <<"AI Engineer", "PM">>,
     aliases |-> <<[canon |-> "AI Engineer", aliases |-> <<"ML Engineer", "ai eng">>], [canon |-> "PM", aliases |-> <<"Product Manager">>]>>]

\* The raw texts offered to the canonicalizers.
RawProcesses ==
    {None, "", "Recruiting", "hiring", "Hiring!", "client-onboarding",
     "Client Onboarding", "delivery", "onboarding", "shipping",
     "the hiring team", "ship", "recruit", "onboarding and shipping",
     "payroll", "---"}

RawSteps ==
    {None, "", "role-details", "Role-Details", "Role Details",
     "role_details", "role details", "completed role details yesterday",
     "details", "role", "intro", "intro call", "sourcing and offer",
     "offer", "offer sent today", "mystery", "???", "kick off", "Kick-Off",
     "setup", "Kickoff Call", "setup done", "kickoff call now", "build"}

RawClients ==
    {None, "", "acme inc", "ACME", "globex", "GLX", "Globex Corp", "altum",
     "john@acme-inc.com", "acme and altum", "new client co", "Altum"}

RawRoles ==
    {None, "  ", "ai engineer", "ML Engineer", "Product Manager",
     "Designer", "PM"}

Statuses ==
    {None, "blocked", "Blocked", "done", "Done", "completed",
     "in_progress"}

Timestamps ==
    {None, "", "not-a-date", "2026-01-19T12:00:00Z",
     "2026-01-17T12:00:00Z", "2026-01-15T12:00:00Z",
     "2026-01-13T12:00:01Z", "2026-01-13T12:00:00Z", "2026-01-10T12:00:00",
     "2026-01-06T12:00:00+00:00", "2025-12-31T12:00:00Z",
     "2026-01-21T12:00:00Z"}

\* The instant handed to the enricher as `now`.
now == "2026-01-20T12:00:00Z"

(***************************************************************************)
(* Instance enricher (src/src/demo/pipeline/stage3_postprocess.py).  The   *)
(* catalogs are always supplied.  An instance is a record; Missing marks   *)
(* a key the dict does not hold where the code tests for the key, and      *)
(* NoInt is None in a field that otherwise holds an integer.               *)
(***************************************************************************)

Missing == "<missing>"
NoInt == -1

\* instance.get(key)
Field(v) == IF v = Missing THEN None ELSE v

\* _safe_parse_iso succeeds: the text is non-empty and an ISO timestamp.
_safe_parse_iso(ts) == Truthy(ts) /\ ts \in DOMAIN IsoEpoch

\* A variant of _attach_raw_fields that overwrites the raw fields.
_attach_raw_fields_overwrite(instance) ==
    [instance EXCEPT !.candidate_process_raw = instance.candidate_process,
                     !.candidate_client_raw = instance.candidate_client,
                     !.candidate_role_raw = instance.candidate_role]

\* _attach_raw_fields
_attach_raw_fields(instance) ==
    [instance EXCEPT !.candidate_process_raw = IF @ = Missing THEN instance.candidate_process ELSE @,
                     !.candidate_client_raw = IF @ = Missing THEN instance.candidate_client ELSE @,
                     !.candidate_role_raw = IF @ = Missing THEN instance.candidate_role ELSE @]

\* _canonicalize_fields
_canonicalize_fields(instance, process_catalog, clients_catalog, roles) ==
    LET canon_process == IF Loaded(process_catalog)
                         THEN canonicalize_process(Field(instance.candidate_process_raw), process_catalog)
                         ELSE None
        canon_client == IF Loaded(clients_catalog)
                        THEN canonicalize_client(Field(instance.candidate_client_raw), clients_catalog)
                        ELSE None
        canon_role == IF roles # NoRoles
                      THEN canonicalize_role(Field(instance.candidate_role_raw), roles)
                      ELSE None
        owner == IF Truthy(canon_process) /\ Loaded(process_catalog)
                    /\ InCatalog(canon_process, process_catalog)
                 THEN ProcessSpec(canon_process, process_catalog).owner ELSE None
    IN  [canonical_process |-> canon_process, canonical_client |-> canon_client,
         canonical_role |-> canon_role, owner |-> owner] @@ instance

\* Lines 114-120: the state of the matched step.
MatchedStepState(status) ==
    IF status = "blocked" THEN "blocked"
    ELSE IF status = "done" THEN "completed"
    ELSE "in_progress"

\* steps_state = None (line 80).  A steps_state that is not None is a mapping
\* from step id to state, the empty mapping {} included (line 89), so None is
\* a value no mapping of step ids equals.
NoStepsState == (None :> None)

\* Lines 77-86: the step fields of an instance without a catalog process.
NoSteps ==
    [steps_total |-> NoInt, steps_done |-> NoInt, steps_state |-> NoStepsState,
     canonical_current_step_id |-> None, canonical_current_step_match_type |-> "none",
     canonical_current_step_match_score |-> <<0, 1>>, canonical_current_step_matched_alias |-> None]

\* A variant of the no-match branch that leaves the step fields null.
UnknownSteps_null(steps) == [steps_total |-> NoInt, steps_done |-> 0, steps_state |-> NoStepsState]

\* Lines 101-107 and 129-131: every step unknown; for a process without
\* steps the mapping is {} and steps_total is 0.
UnknownSteps(steps) ==
    [steps_total |-> Len(steps), steps_done |-> 0,
     steps_state |-> [s \in {steps[i] : i \in 1..Len(steps)} |-> "unknown"]]

\* Lines 108-134: the loop over the step list.  A matched step that is not
\* in the list (an alias kept for a step the process does not list) falls
\* back to the unknowns of lines 129-131.  Every occurrence of the
\* matched step with a done status counts as done, and so does every other
\* step before the first occurrence of the matched step; a step id that is
\* listed more than once keeps the state its last occurrence is given.
PositionalSteps(steps, matched, status) ==
    IF ~InSeq(matched, steps) THEN UnknownSteps(steps)
    ELSE LET m == IndexOf(matched, steps)
             LastAt(s) == SetMax({i \in 1..Len(steps) : steps[i] = s})
             done == {i \in 1..Len(steps) :
                         IF steps[i] = matched THEN MatchedStepState(status) = "completed"
                         ELSE i < m}
         IN  [steps_total |-> Len(steps),
              steps_done |-> Cardinality(done),
              steps_state |-> [s \in {steps[i] : i \in 1..Len(steps)} |->
                  IF s = matched THEN MatchedStepState(status)
                  ELSE IF LastAt(s) < m THEN "completed"
                  ELSE "not_started"]]

\* _compute_steps
_compute_steps(instance, process_catalog) ==
    LET canon_process == instance.canonical_process
    IN  IF ~Truthy(canon_process) \/ ~Loaded(process_catalog)
           \/ ~InCatalog(canon_process, process_catalog)
        THEN NoSteps @@ instance
        ELSE LET steps == ProcessSpec(canon_process, process_catalog).steps
                 match == match_step(instance.state.step, canon_process, process_catalog)
                 status == Or(instance.state.status, "unknown")
             IN  (IF match.step_id = None THEN UnknownSteps(steps)
                  ELSE PositionalSteps(steps, match.step_id, status))
                 @@ [canonical_current_step_id |-> match.step_id,
                     canonical_current_step_match_type |-> match.match_type,
                     canonical_current_step_match_score |-> match.score,
                     canonical_current_step_matched_alias |-> Get(match, "matched_alias")]
                 @@ instance

\* Seconds in a day (line 145).
DaySeconds == 86400

\* A variant of the health ladder that tests the blocked status first.
HealthOf_blocked_first(elapsed, status, at_risk_days, overdue_days) ==
    IF status = CodePoints["blocked"] THEN "at_risk"
    ELSE IF overdue_days # NoInt /\ elapsed >= overdue_days * DaySeconds THEN "overdue"
    ELSE IF at_risk_days # NoInt /\ elapsed >= at_risk_days * DaySeconds THEN "at_risk"
    ELSE "on_track"

\* Lines 155-162: the ladder on the elapsed seconds, the lower-cased status
\* and the thresholds (NoInt when none was loaded).  delta_days >= float(d)
\* is elapsed >= d * 86400.
HealthOf(elapsed, status, at_risk_days, overdue_days) ==
    IF overdue_days # NoInt /\ elapsed >= overdue_days * DaySeconds THEN "overdue"
    ELSE IF status = CodePoints["blocked"] THEN "at_risk"
    ELSE IF at_risk_days # NoInt /\ elapsed >= at_risk_days * DaySeconds THEN "at_risk"
    ELSE "on_track"

\* _compute_health: the health of the instance at current_time.
_compute_health(instance, process_catalog, current_time) ==
    LET canon_process == instance.canonical_process
        state == instance.state
        loaded == Truthy(canon_process) /\ Loaded(process_catalog)
                  /\ InCatalog(canon_process, process_catalog)
        at_risk_days == IF loaded THEN ProcessSpec(canon_process, process_catalog).health.at_risk_after_days
                        ELSE NoInt
        overdue_days == IF loaded THEN ProcessSpec(canon_process, process_catalog).health.overdue_after_days
                        ELSE NoInt
        status == Lower(CodePoints[Or(state.status, "")])
    IN  IF ~_safe_parse_iso(state.last_updated_at) THEN "unknown"
        ELSE HealthOf(IsoEpoch[current_time] - IsoEpoch[state.last_updated_at], status,
                      at_risk_days, overdue_days)

\* Line 189: the health field is set on the instance.
WithHealth(instance, process_catalog, current_time) ==
    [health |-> _compute_health(instance, process_catalog, current_time)] @@ instance

\* Lines 184-189: one instance through the enricher.
Enriched(inst, process_catalog, clients_catalog, roles, current_time) ==
    WithHealth(_compute_steps(_canonicalize_fields(_attach_raw_fields(inst), process_catalog,
                                                   clients_catalog, roles),
                              process_catalog),
               process_catalog, current_time)

\* pct, in ten-thousandths.
pct(n, total) == IF total = 0 THEN 0 ELSE Round4(<<n, total>>)

\* Lines 191-213: the returned pair, from the enriched list: the coverage
\* counts (canonical_process not None, steps_state not None, health known)
\* as rates, and the histogram of health.
WithPhaseB(enriched) ==
    [enriched |-> enriched,
     phase_b |->
        [coverage |->
            [canonical_process_pct |->
                pct(Cardinality({i \in 1..Len(enriched) : enriched[i].canonical_process # None}),
                    Len(enriched)),
             steps_state_pct |->
                pct(Cardinality({i \in 1..Len(enriched) : enriched[i].steps_state # NoStepsState}),
                    Len(enriched)),
             health_pct |->
                pct(Cardinality({i \in 1..Len(enriched) : enriched[i].health # "unknown"}),
                    Len(enriched))],
         counts |-> [by_health |-> [h \in {"on_track", "at_risk", "overdue", "unknown"} |->
                        Cardinality({i \in 1..Len(enriched) : enriched[i].health = h})]]]]

\* enrich_instances
enrich_instances(insts, process_catalog, clients_catalog, roles, current_time) ==
    WithPhaseB([i \in 1..Len(insts) |->
                   Enriched(insts[i], process_catalog, clients_catalog, roles, current_time)])

(***************************************************************************)
(* Direct calls of the canonicalizers and of the enricher: a behaviour     *)
(* makes one call and holds its arguments and its result; an enrichment    *)
(* may be followed by the enrichment of its own output.                    *)
(***************************************************************************)

\* The canonical_process values handed to match_step, _compute_steps and
\* _compute_health: null, empty, catalog keys and a key outside the catalog.
CanonicalProcesses == {None, "", "recruiting", "client_onboarding", "delivery", "payroll"}

\* An instance as extraction hands it to the enricher: no *_raw key yet.
ExtractedInstance(key, process, client, role, step, status, ts) ==
    [instance_key |-> key,
     candidate_process |-> process, candidate_client |-> client, candidate_role |-> role,
     candidate_process_raw |-> Missing, candidate_client_raw |-> Missing, candidate_role_raw |-> Missing,
     state |-> [status |-> status, step |-> step, last_updated_at |-> ts]]

\* The instances offered to enrich_instances; the last one already carries
\* raw fields that differ from its candidate fields.
ExtractedInstances ==
    {ExtractedInstance("thread:1", "hiring", "ACME", "ai engineer", "Role Details", "in_progress", "2026-01-19T12:00:00Z"),
     ExtractedInstance("thread:2", "Client Onboarding", "globex", "Product Manager", "kick off", "blocked", "2026-01-17T12:00:00Z"),
     ExtractedInstance("thread:3", "payroll", "new client co", "Designer", "mystery", "done", "2026-01-10T12:00:00"),
     ExtractedInstance("thread:4", "recruiting", None, None, "mystery", "Blocked", "2025-12-31T12:00:00Z"),
     ExtractedInstance("thread:5", None, "GLX", "  ", None, None, None),
     ExtractedInstance("thread:6", "onboarding", "Altum", "PM", "build", "completed", "2026-01-13T12:00:00Z"),
     ExtractedInstance("thread:7", "recruiting", "Altum", "PM", "offer sent today", "done", "not-a-date"),
     [ExtractedInstance("thread:8", "shipping", "globex", "PM", "sourcing", "waiting", "2026-01-15T12:00:00Z")
        EXCEPT !.candidate_process_raw = "hiring", !.candidate_client_raw = None]}

MaxEnrichLen == 2
ExtractedLists == UNION {[1..n -> ExtractedInstances] : n \in 0..MaxEnrichLen}

\* What a later extraction may put into the candidate fields of an instance
\* that was enriched before.
CandidateChanges ==
    {[process |-> "delivery", client |-> "Globex", role |-> "PM"],
     [process |-> None, client |-> None, role |-> None],
     [process |-> "hiring", client |-> "acme and altum", role |-> "Designer"]}

\* The instance with its candidate fields replaced.
WithCandidates(inst, c) ==
    [inst EXCEPT !.candidate_process = c.process, !.candidate_client = c.client, !.candidate_role = c.role]

\* The catalogs pass2.py lines 360-387 hand to enrich_instances: each of the
\* three is loaded in a try/except of its own, so each one is loaded or None
\* independently of the other two; a clients catalog may also list no client.
LoadedCatalogs ==
    {<<p, c, r>> : p \in ProcessCatalogs \cup {NoCatalog},
                   c \in ClientsCatalogs \cup {<<>>, NoCatalog},
                   r \in {roles_catalog, NoRoles}}

CallCanonicalizeProcess ==
    /\ call = NoCall
    /\ \E process_raw \in RawProcesses, process_catalog \in ProcessCatalogs :
        /\ call' = [op |-> "canonicalize_process", process_raw |-> process_raw,
                    process_catalog |-> process_catalog]
        /\ result' = canonicalize_process(process_raw, process_catalog)
    /\ UNCHANGED engine_vars

CallCanonicalizeClient ==
    /\ call = NoCall
    /\ \E client_raw \in RawClients, clients_catalog \in ClientsCatalogs :
        /\ call' = [op |-> "canonicalize_client", client_raw |-> client_raw,
                    clients_catalog |-> clients_catalog]
        /\ result' = canonicalize_client(client_raw, clients_catalog)
    /\ UNCHANGED engine_vars

CallCanonicalizeRole ==
    /\ call = NoCall
    /\ \E role_raw \in RawRoles :
        /\ call' = [op |-> "canonicalize_role", role_raw |-> role_raw]
        /\ result' = canonicalize_role(role_raw, roles_catalog)
    /\ UNCHANGED engine_vars

CallMatchStep ==
    /\ call = NoCall
    /\ \E step_raw \in RawSteps, canonical_process \in CanonicalProcesses,
          process_catalog \in ProcessCatalogs :
        /\ call' = [op |-> "match_step", step_raw |-> step_raw,
                    canonical_process |-> canonical_process, process_catalog |-> process_catalog]
        /\ result' = match_step(step_raw, canonical_process, process_catalog)
    /\ UNCHANGED engine_vars

\* The instance fields _compute_steps and _compute_health read.
CanonicalInstance(canonical_process, step, status, ts) ==
    [canonical_process |-> canonical_process,
     state |-> [status |-> status, step |-> step, last_updated_at |-> ts]]

CallComputeSteps ==
    /\ call = NoCall
    /\ \E canonical_process \in CanonicalProcesses, step \in RawSteps, status \in Statuses,
          process_catalog \in ProcessCatalogs \cup {NoCatalog} :
        /\ call' = [op |-> "_compute_steps",
                    instance |-> CanonicalInstance(canonical_process, step, status, None),
                    process_catalog |-> process_catalog]
        /\ result' = _compute_steps(CanonicalInstance(canonical_process, step, status, None),
                                    process_catalog)
    /\ UNCHANGED engine_vars

CallComputeHealth ==
    /\ call = NoCall
    /\ \E canonical_process \in CanonicalProcesses, status \in Statuses, ts \in Timestamps,
          process_catalog \in ProcessCatalogs \cup {NoCatalog} :
        /\ call' = [op |-> "_compute_health",
                    instance |-> CanonicalInstance(canonical_process, None, status, ts),
                    process_catalog |-> process_catalog]
        /\ result' = _compute_health(CanonicalInstance(canonical_process, None, status, ts),
                                     process_catalog, now)
    /\ UNCHANGED engine_vars

CallEnrichInstances ==
    /\ call = NoCall
    /\ \E insts \in ExtractedLists, catalogs \in LoadedCatalogs :
        /\ call' = [op |-> "enrich_instances", instances |-> insts,
                    process_catalog |-> catalogs[1], clients_catalog |-> catalogs[2],
                    roles_catalog |-> catalogs[3]]
        /\ result' = enrich_instances(insts, catalogs[1], catalogs[2], catalogs[3], now)
    /\ UNCHANGED engine_vars

\* enrich_instances on the output of an enrichment whose candidate fields a
\* later extraction has rewritten, under the same catalogs.
CallEnrichAgain ==
    /\ call.op = "enrich_instances"
    /\ \E c \in CandidateChanges :
        \E insts \in {[i \in 1..Len(result.enriched) |-> WithCandidates(result.enriched[i], c)]} :
            /\ call' = [op |-> "enrich_again", instances |-> insts, first |-> result.enriched,
                        process_catalog |-> call.process_catalog,
                        clients_catalog |-> call.clients_catalog,
                        roles_catalog |-> call.roles_catalog]
            /\ result' = enrich_instances(insts, call.process_catalog, call.clients_catalog,
                                          call.roles_catalog, now)
    /\ UNCHANGED engine_vars

(***************************************************************************)
(* Catalog loader (src/src/demo/catalog/loader.py, compiler.py): the       *)
(* recruiting process is compiled from the workflow definition and an      *)
(* optional override, a flat process spec is compiled into a catalog entry *)
(* or refused with a ValueError.                                           *)
(***************************************************************************)

\* raise ValueError(message)
Raise(message) == [raised |-> "ValueError", message |-> message]
Raises(r) == "raised" \in DOMAIN r

\* raise FileNotFoundError (loader.py line 17)
RaiseNotFound == [raised |-> "FileNotFoundError", message |-> "YAML file not found"]

\* _coerce_health: a key that is absent (NoInt) takes its default; a null
\* or empty health mapping has both keys absent.
_coerce_health(raw) ==
    [at_risk_after_days |-> IF raw.at_risk_after_days = NoInt THEN 7 ELSE raw.at_risk_after_days,
     overdue_after_days |-> IF raw.overdue_after_days = NoInt THEN 14 ELSE raw.overdue_after_days]

\* dedupe_aliases: the aliases whose normalized text is not empty and was
\* not seen before, in order.
RECURSIVE DedupeLoop(_, _, _, _)
DedupeLoop(aliases, i, seen, out) ==
    IF i > Len(aliases) THEN out
    ELSE IF normalize_text(aliases[i]) = <<>> \/ normalize_text(aliases[i]) \in seen
         THEN DedupeLoop(aliases, i + 1, seen, out)
    ELSE DedupeLoop(aliases, i + 1, seen \cup {normalize_text(aliases[i])}, Append(out, aliases[i]))

dedupe_aliases(aliases) == DedupeLoop(aliases, 1, {}, <<>>)

\* _add_alias: a null or empty alias, or one that normalizes to nothing, is
\* not added.  The key kept with an alias is always its normalize_text.
_add_alias(aliases, alias) ==
    IF ~Truthy(alias) \/ normalize_text(alias) = <<>> THEN aliases ELSE Append(aliases, alias)

RECURSIVE AddAliases(_, _)
AddAliases(aliases, more) ==
    IF more = <<>> THEN aliases ELSE AddAliases(_add_alias(aliases, Head(more)), Tail(more))

\* dedupe_aliases_with_keys on (alias, normalize_text(alias)) pairs.
dedupe_aliases_with_keys(aliases) == DedupeLoop(aliases, 1, {}, <<>>)

\* s.replace(old, new) for single characters, and s.lower().
Replaced(s, old, new) == StrOf([i \in 1..Len(CodePoints[s]) |->
                                   IF CodePoints[s][i] = old THEN new ELSE CodePoints[s][i]])
Lowered(s) == StrOf(Lower(CodePoints[s]))

\* _seed_step_aliases: name, short name, id, the id with "-" and with "_"
\* as spaces, the lower-cased name and short name.
_seed_step_aliases(step) ==
    dedupe_aliases_with_keys(AddAliases(<<>>,
        <<step.name, step.short_name, step.id>>
        \o (IF Truthy(step.id) THEN <<Replaced(step.id, 45, 32), Replaced(step.id, 95, 32)>> ELSE <<>>)
        \o (IF Truthy(step.name) THEN <<Lowered(step.name)>> ELSE <<>>)
        \o (IF Truthy(step.short_name) THEN <<Lowered(step.short_name)>> ELSE <<>>)))

\* A dict of alias lists by step id, as the sequence of its items: the
\* value of a key, and the assignment d[k] = v (a new key goes last).
AliasesOf(d, k) ==
    IF \E i \in 1..Len(d) : d[i].step = k
    THEN d[CHOOSE i \in 1..Len(d) : d[i].step = k].aliases ELSE <<>>
SetAliases(d, k, v) ==
    IF \E i \in 1..Len(d) : d[i].step = k
    THEN [i \in 1..Len(d) |-> IF d[i].step = k THEN [step |-> k, aliases |-> v] ELSE d[i]]
    ELSE Append(d, [step |-> k, aliases |-> v])

\* Lines 50-59: the loop over the steps of the phases, in order.
RECURSIVE SeedLoop(_, _, _)
SeedLoop(visited, i, acc) ==
    IF i > Len(visited) THEN acc
    ELSE SeedLoop(visited, i + 1,
             [steps |-> Append(acc.steps, visited[i].step.id),
              step_to_phase |-> IF Truthy(visited[i].phase_id)
                                THEN [k \in DOMAIN acc.step_to_phase \cup {visited[i].step.id} |->
                                         IF k = visited[i].step.id THEN visited[i].phase_id
                                         ELSE acc.step_to_phase[k]]
                                ELSE acc.step_to_phase,
              step_aliases |-> SetAliases(acc.step_aliases, visited[i].step.id,
                                          _seed_step_aliases(visited[i].step))])

\* Lines 74-80: the step aliases of the override are added to those seeded.
RECURSIVE OverrideLoop(_, _, _)
OverrideLoop(items, i, step_aliases) ==
    IF i > Len(items) THEN step_aliases
    ELSE OverrideLoop(items, i + 1,
             SetAliases(step_aliases, items[i].step,
                        dedupe_aliases_with_keys(
                            AddAliases(AliasesOf(step_aliases, items[i].step), items[i].aliases))))

\* An override document without a recruiting entry, and `if override:`.
NoOverride == [process_aliases |-> <<>>, step_aliases |-> <<>>]

\* compile_recruiting: workflow_def.get("processes") and the recruiting
\* entry of the override document.
compile_recruiting(processes, override) ==
    IF ~\E i \in 1..Len(processes) : processes[i].id = "recruiting"
    THEN Raise("workflow_definition is missing process id \"recruiting\"")
    ELSE LET process == processes[CHOOSE i \in 1..Len(processes) :
                                     /\ processes[i].id = "recruiting"
                                     /\ \A j \in 1..(i - 1) : processes[j].id # "recruiting"]
             phases == process.phases
             visited == Flatten([i \in 1..Len(phases) |->
                            [j \in 1..Len(WithId(phases[i].steps)) |->
                                [phase_id |-> phases[i].id, step |-> WithId(phases[i].steps)[j]]]])
             seeded == SeedLoop(visited, 1, [steps |-> <<>>, step_to_phase |-> <<>>, step_aliases |-> <<>>])
             process_aliases == AddAliases(<<>>, <<"recruiting", "recruitment", "hiring",
                                                    "recruiting pipeline", process.name>>
                                                  \o override.process_aliases)
         IN  [process_id |-> "recruiting",
              display_name |-> Or(process.name, "Recruiting"),
              owner |-> IF Truthy(process.owner) THEN process.owner ELSE process.owner_role,
              steps |-> seeded.steps,
              process_aliases |-> dedupe_aliases_with_keys(process_aliases),
              step_aliases |-> OverrideLoop(override.step_aliases, 1, seeded.step_aliases),
              health |-> [at_risk_after_days |-> 7, overdue_after_days |-> 14],
              phases |-> Ids(WithId(phases)),
              step_to_phase |-> seeded.step_to_phase]

\* A loader that compiles whatever the spec holds.
_compile_unvalidated(process_id, spec) ==
    [process_id |-> process_id,
     display_name |-> Or(spec.display_name, process_id),
     owner |-> spec.owner,
     steps |-> spec.steps,
     process_aliases |-> dedupe_aliases(spec.process_aliases),
     step_aliases |-> [i \in 1..Len(spec.step_aliases) |->
                          [step |-> spec.step_aliases[i].step,
                           aliases |-> dedupe_aliases(spec.step_aliases[i].aliases)]],
     health |-> _coerce_health(spec.health)]

\* _compile_from_process_catalog
_compile_from_process_catalog(process_id, spec) ==
    IF spec.steps = <<>>
    THEN Raise("must define non-empty steps")
    ELSE IF Cardinality({normalize_text(spec.steps[i]) : i \in 1..Len(spec.steps)}) # Len(spec.steps)
    THEN Raise("steps must be unique after normalization")
    ELSE IF _coerce_health(spec.health).overdue_after_days < _coerce_health(spec.health).at_risk_after_days
    THEN Raise("health thresholds invalid: overdue < at_risk")
    ELSE [process_id |-> process_id,
          display_name |-> Or(spec.display_name, process_id),
          owner |-> spec.owner,
          steps |-> spec.steps,
          process_aliases |-> dedupe_aliases(spec.process_aliases),
          step_aliases |-> [i \in 1..Len(spec.step_aliases) |->
                               [step |-> spec.step_aliases[i].step,
                                aliases |-> dedupe_aliases(spec.step_aliases[i].aliases)]],
          health |-> _coerce_health(spec.health)]

\* The loop of load_unified_catalog over the process-catalog document: the
\* reserved ids are skipped, the first refused spec ends the load.
RECURSIVE LoadLoop(_, _, _)
LoadLoop(processes, i, compiled) ==
    IF i > Len(processes) THEN [processes |-> compiled]
    ELSE IF processes[i].process_id \in {"hiring", "recruiting"} THEN LoadLoop(processes, i + 1, compiled)
    ELSE IF Raises(_compile_from_process_catalog(processes[i].process_id, processes[i].spec))
    THEN _compile_from_process_catalog(processes[i].process_id, processes[i].spec)
    ELSE LoadLoop(processes, i + 1,
                  Append(compiled, _compile_from_process_catalog(processes[i].process_id, processes[i].spec)))

\* A YAML file: absent, unreadable as YAML, or holding a document; an empty
\* document reads as {} (line 20).
MissingFile == [exists |-> FALSE, parses |-> FALSE]
BrokenFile == [exists |-> TRUE, parses |-> FALSE]
YamlFile(data) == [exists |-> TRUE, parses |-> TRUE, data |-> data]

\* _load_yaml raises for the file.
_load_yaml_raises(file) == ~file.exists \/ ~file.parses
_load_yaml_error(file) == IF ~file.exists THEN RaiseNotFound ELSE Raise("Failed to parse YAML")

\* load_unified_catalog: the workflow definition is read, then the override
\* when a path is given and the file exists (lines 63-67); the recruiting
\* process is compiled (line 68); then the process catalog is read and its
\* flat specs are compiled in the order of the document, after recruiting,
\* as ProcessCatalog(processes).  override_path is None for NoPath.
load_unified_catalog(workflow_file, catalog_file, override_path) ==
    IF _load_yaml_raises(workflow_file) THEN _load_yaml_error(workflow_file)
    ELSE IF override_path.given /\ override_path.file.exists /\ _load_yaml_raises(override_path.file)
    THEN _load_yaml_error(override_path.file)
    ELSE LET override == IF override_path.given /\ override_path.file.exists
                         THEN override_path.file.data ELSE NoOverride
             recruiting == compile_recruiting(workflow_file.data, override)
         IN  IF Raises(recruiting) THEN recruiting
             ELSE IF _load_yaml_raises(catalog_file) THEN _load_yaml_error(catalog_file)
             ELSE LoadLoop(catalog_file.data, 1, <<recruiting>>)

\* The step texts of the flat specs; "---" and "???" both normalize to "".
SpecStepTexts == {"kick-off", "Kick-Off", "kick off", "kickoff", "setup", "---", "???"}

MaxSpecSteps == 2
SpecStepLists == UNION {[1..n -> SpecStepTexts] : n \in 0..MaxSpecSteps}

\* The health mappings of the flat specs; NoInt stands for an absent key.
HealthValues == {NoInt, 5, 7, 10, 14}
HealthMappings == [at_risk_after_days : HealthValues, overdue_after_days : HealthValues]

\* The flat specs: spec.get("steps") or [], spec.get("health"), and the
\* fields that are copied or de-duplicated.
FlatSpec(steps, health) ==
    [display_name |-> None, owner |-> "Ops", steps |-> steps,
     process_aliases |-> <<"Delivery", "delivery", "---", "shipping">>,
     step_aliases |-> <<[step |-> "setup", aliases |-> <<"Role Details", "setup", "role-details">>]>>,
     health |-> health]

\* The flat specs of the documents that are loaded as a whole.
DocumentSpecs ==
    {FlatSpec(<<"kick-off", "setup">>, [at_risk_after_days |-> NoInt, overdue_after_days |-> NoInt]),
     FlatSpec(<<"kick-off", "setup">>, [at_risk_after_days |-> 10, overdue_after_days |-> 5]),
     FlatSpec(<<"kickoff", "kick off">>, [at_risk_after_days |-> 5, overdue_after_days |-> 5]),
     FlatSpec(<<"kick-off", "Kick-Off">>, [at_risk_after_days |-> 7, overdue_after_days |-> 14]),
     FlatSpec(<<>>, [at_risk_after_days |-> 7, overdue_after_days |-> 14])}

\* The process-catalog documents: up to two entries with different ids.
DocumentIds == {"hiring", "recruiting", "delivery", "payroll"}
DocumentEntries == [process_id : DocumentIds, spec : DocumentSpecs]
Documents ==
    {<<>>} \cup {<<e>> : e \in DocumentEntries}
    \cup {d \in DocumentEntries \X DocumentEntries : d[1].process_id # d[2].process_id}

CallCompileFromProcessCatalog ==
    /\ call = NoCall
    /\ \E steps \in SpecStepLists, health \in HealthMappings :
        /\ call' = [op |-> "_compile_from_process_catalog", process_id |-> "delivery",
                    spec |-> FlatSpec(steps, health)]
        /\ result' = _compile_from_process_catalog("delivery", FlatSpec(steps, health))
    /\ UNCHANGED engine_vars

\* The recruiting entries of the workflow definitions given to the loader:
\* the usual one; one without name and owner, with a phase and a step that
\* have no id and a step id that two phases list; one without phases.
LoaderStep(id, name, short_name) == [id |-> id, name |-> name, short_name |-> short_name]

RecruitingEntries ==
    <<[id |-> "recruiting", name |-> "Recruiting", owner |-> "Talent", owner_role |-> None,
       phases |-> <<[id |-> "intake", steps |-> <<LoaderStep("role-details", "Role Details", "Role")>>],
                    [id |-> "close", steps |-> <<LoaderStep("sourcing", "Sourcing", "intro"),
                                                 LoaderStep("offer", "Offer Sent", "intro")>>]>>],
      [id |-> "recruiting", name |-> None, owner |-> None, owner_role |-> "Lead",
       phases |-> <<[id |-> None, steps |-> <<LoaderStep("role_details", None, None),
                                              LoaderStep(None, "Ghost", None)>>],
                    [id |-> "close", steps |-> <<LoaderStep("offer", "Offer Sent", None),
                                                 LoaderStep("role_details", "Role Details", "RD")>>],
                    [id |-> "", steps |-> <<LoaderStep("offer", None, "Signed")>>]>>],
      [id |-> "recruiting", name |-> "Hiring", owner |-> "", owner_role |-> None, phases |-> <<>>]>>

OtherEntry == [id |-> "onboarding", name |-> "Client Onboarding", phases |-> <<>>]

\* workflow_def.get("processes") or []: no process, none called recruiting,
\* each recruiting entry alone, and two of them after another process.
WorkflowDefinitions ==
    {<<>>, <<OtherEntry>>, <<OtherEntry, RecruitingEntries[2], RecruitingEntries[1]>>}
    \cup {<<RecruitingEntries[i]>> : i \in 1..Len(RecruitingEntries)}

WorkflowFiles == {MissingFile, BrokenFile} \cup {YamlFile(d) : d \in WorkflowDefinitions}

\* The recruiting entry of an override document.
OverrideEntry ==
    [process_aliases |-> <<"talent", None, "Hiring", "", "HIRING">>,
     step_aliases |-> <<[step |-> "offer", aliases |-> <<"Offer", "offer sent", "signed">>],
                        [step |-> "onsite", aliases |-> <<"On Site">>]>>]

\* override_path: None, or the path of a file.
NoPath == [given |-> FALSE]
PathOf(file) == [given |-> TRUE, file |-> file]
OverridePaths ==
    {NoPath, PathOf(MissingFile), PathOf(BrokenFile), PathOf(YamlFile(NoOverride)),
     PathOf(YamlFile(OverrideEntry))}

\* The process-catalog files read next to every workflow definition.
CatalogFiles ==
    {MissingFile, BrokenFile, YamlFile(<<>>)}
    \cup {YamlFile(<<[process_id |-> "delivery", spec |-> s]>>) :
             s \in {FlatSpec(<<"kick-off", "setup">>, [at_risk_after_days |-> NoInt, overdue_after_days |-> NoInt]),
                    FlatSpec(<<>>, [at_risk_after_days |-> 7, overdue_after_days |-> 14])}}

\* The calls of load_unified_catalog: every process-catalog document under
\* the usual workflow definition, and every combination of the files above.
LoaderInputs ==
    {<<YamlFile(<<RecruitingEntries[1]>>), YamlFile(d), NoPath>> : d \in Documents}
    \cup (WorkflowFiles \X CatalogFiles \X OverridePaths)

CallLoadUnifiedCatalog ==
    /\ call = NoCall
    /\ \E in \in LoaderInputs :
        /\ call' = [op |-> "load_unified_catalog", workflow_file |-> in[1],
                    catalog_file |-> in[2], override_path |-> in[3]]
        /\ result' = load_unified_catalog(in[1], in[2], in[3])
    /\ UNCHANGED engine_vars

\* The characters of the texts handed to normalize_text: a capital and a
\* small letter, "-", "_", "!", a space and a tab.
TextAlphabet == {65, 97, 45, 95, 33, 32, 9}

MaxTextLen == 4
Texts == UNION {[1..n -> TextAlphabet] : n \in 0..MaxTextLen}

\* The arguments of normalize_text: null, or a string given by its characters.
TextValues == {[is_null |-> TRUE, chars |-> <<>>]} \cup {[is_null |-> FALSE, chars |-> cs] : cs \in Texts}

\* normalize_text on an argument given by its characters.
normalize_value(value) == IF value.is_null THEN <<>> ELSE normalize_chars(value.chars)

\* normalize_text, and normalize_text on what it returned.
CallNormalizeText ==
    /\ call = NoCall
    /\ \E value \in TextValues :
        /\ call' = [op |-> "normalize_text", value |-> value]
        /\ result' = [once |-> normalize_value(value),
                      twice |-> normalize_chars(normalize_value(value))]
    /\ UNCHANGED engine_vars

NextEnrich ==
    \/ CallCanonicalizeProcess
    \/ CallCanonicalizeClient
    \/ CallCanonicalizeRole
    \/ CallMatchStep
    \/ CallComputeSteps
    \/ CallComputeHealth
    \/ CallEnrichInstances
    \/ CallEnrichAgain
    \/ CallNormalizeText
    \/ CallCompileFromProcessCatalog
    \/ CallLoadUnifiedCatalog

SpecEnrich == Init /\ [][NextEnrich]_vars

(***************************************************************************)
(* The store writer (src/src/demo/utils/json_utils.py), one file           *)
(* operation per step.  run_reconciliation hands it the store document.    *)
(***************************************************************************)

MaxDocWorkflows == 2

MaxWrites == 2

StoreWorkflowIds == {"wf_1", "wf_2"}

\* store_obj of run_reconciliation, lines 788-791.
StoreDocuments ==
    {[version |-> 1, workflows |-> w] :
        w \in UNION {[1..n -> StoreWorkflowIds] : n \in 0..MaxDocWorkflows}}

\* Calls of write_json begun so far.
WritesBegun == IF call.op = "none" THEN 0 ELSE call.n

\* Lines 15-19: write_json is entered and opens the temporary file.
WriteJsonOpen ==
    /\ call.op \in {"none", "write_json_done", "write_json_raised"}
    /\ WritesBegun < MaxWrites
    /\ \E obj \in StoreDocuments :
         call' = [op |-> "write_json", obj |-> obj, previous |-> files.store,
                  written |-> 0, n |-> WritesBegun + 1, opened |-> TRUE]
    /\ files' = open_temp(files)
    /\ result' = None
    /\ UNCHANGED run_vars

\* An error in lines 15-19 (the directory cannot be made, the temporary file
\* cannot be created): the exception leaves write_json and no file is made.
WriteJsonOpenFails ==
    /\ call.op \in {"none", "write_json_done", "write_json_raised"}
    /\ WritesBegun < MaxWrites
    /\ \E obj \in StoreDocuments :
         call' = [op |-> "write_json_raised", obj |-> obj, previous |-> files.store,
                  written |-> 0, n |-> WritesBegun + 1, opened |-> FALSE]
    /\ result' = [raised |-> "OSError", message |-> "open failed"]
    /\ UNCHANGED <<run_vars, files>>

\* Lines 20-21: the next piece of the document.
WriteJsonPiece ==
    /\ call.op = "write_json"
    /\ call.written < Len(document_text(call.obj))
    /\ files' = write_piece(files, document_text(call.obj)[call.written + 1])
    /\ call' = [call EXCEPT !.written = @ + 1]
    /\ UNCHANGED <<run_vars, result>>

\* An I/O error in lines 20-24: the exception leaves write_json, and the
\* temporary file stays where it is (delete=False).
WriteJsonFails ==
    /\ call.op = "write_json"
    /\ call' = [call EXCEPT !.op = "write_json_raised"]
    /\ result' = [raised |-> "OSError", message |-> "write failed"]
    /\ UNCHANGED <<run_vars, files>>

\* Line 24: the whole document is in the temporary file; replace the target.
WriteJsonReplace ==
    /\ call.op = "write_json"
    /\ call.written = Len(document_text(call.obj))
    /\ files' = os_replace(files, "store")
    /\ call' = [call EXCEPT !.op = "write_json_done"]
    /\ UNCHANGED <<run_vars, result>>

NextWrite ==
    WriteJsonOpen \/ WriteJsonOpenFails \/ WriteJsonPiece \/ WriteJsonFails \/ WriteJsonReplace

SpecWrite == Init /\ [][NextWrite]_vars

(***************************************************************************)
(* Properties of the engine.                                               *)
(***************************************************************************)

\* The instance the next loop iteration processes.
CurrentInstance == InstanceById[instances[pos]]

\* The step is one iteration of the loop / the end of a run.
Iterates == pc = "running" /\ pos' = pos + 1
Finishes == pc = "running" /\ pc' = "idle"

\* The workflow ids of a list.
WorkflowIds(wfs) == {wfs[i].workflow_id : i \in 1..Len(wfs)}

\* C1: with the scope restriction on, an instance whose canonical_process is
\* not an in-scope key is counted in global.incoming_total, and its iteration
\* leaves the workflow list and both indices as they were (no workflow is
\* created for it, none is modified from it); the list a scoped run returns
\* holds in-scope workflows only.
C1_OutOfScopeCountedNotWritten ==
    [][ /\ (Iterates /\ hiring_only
              /\ ~InSeq(CurrentInstance.canonical_process, hiring_process_keys))
           => /\ workflows' = workflows
              /\ existing_exact' = existing_exact
              /\ existing_fuzzy' = existing_fuzzy
              /\ counters'.total = Len(instances)
        /\ Finishes
           => /\ reports'.coverage.global.incoming_total = Len(instances)
              /\ hiring_only => \A i \in 1..Len(store') :
                                   InSeq(store'[i].process_id, hiring_process_keys)
      ]_vars

\* A scoped run of an in-scope and an out-of-scope instance has finished:
\* both are counted, one workflow is written.
C1_Witness ==
    /\ pc = "idle" /\ runs = 1 /\ hiring_only
    /\ instances = <<"I1", "I4">>
    /\ reports.coverage.global.incoming_total = 2
    /\ Len(store) = 1
    /\ store[1].observability.source_instance_key = "thread:1"

\* C2 (as the code has it): the list a run writes back starts with the prior
\* workflows the scope keeps, in their order and with their ids, followed by
\* the workflows the run created.  With the scope restriction off every prior
\* workflow is kept; with it on exactly those whose process_id is an in-scope
\* key are kept, and the others are no longer in the store.
C2_PriorKeptWithinScope ==
    [][Finishes =>
          LET kept == SelectSeq(store, LAMBDA wf :
                          ~hiring_only \/ InSeq(wf.process_id, hiring_process_keys))
          IN  /\ Len(store') = Len(kept) + counters.match_counts.created
              /\ \A i \in 1..Len(kept) : store'[i].workflow_id = kept[i].workflow_id
      ]_vars

\* A scoped run is about to write back a list from which an out-of-scope
\* prior workflow is gone while an in-scope one is kept.
C2_Witness ==
    /\ pc = "running" /\ pos > Len(instances) /\ hiring_only
    /\ \E i \in 1..Len(store) : ~InSeq(store[i].process_id, hiring_process_keys)
                                /\ store[i].workflow_id \notin WorkflowIds(workflows)
    /\ \E i \in 1..Len(store) : InSeq(store[i].process_id, hiring_process_keys)
                                /\ store[i].workflow_id \in WorkflowIds(workflows)

\* C2 as stated: every workflow of the prior store is still in the store a
\* run writes back, whatever the scope.
C2_NeverDeleted ==
    [][Finishes => \A i \in 1..Len(store) : store[i].workflow_id \in WorkflowIds(store')]_vars

\* C3 as stated: when a run is repeated with the same instance list and the
\* same configuration on the store the first run wrote, the second run creates
\* no workflow and the set of workflow ids stays the one the first run stored.
C3_RerunIdempotent ==
    (runs = 2 /\ pc = "running") =>
        /\ counters.match_counts.created = 0
        /\ WorkflowIds(workflows) = WorkflowIds(store)

\* The iteration writes an instance to a workflow that was already in the list.
UpdatesExisting == Iterates /\ ~iter'.skipped /\ iter'.match_type # "created"

\* C5 (as the code has it): when an instance updates a workflow, the stored
\* last_updated_at is kept if the incoming one is missing; if both the stored
\* and the incoming one are ISO timestamps the later of the two is stored (the
\* incoming one when they are the same instant), so the stored time does not
\* move backwards; in every other case (nothing stored, or the stored or the
\* incoming string is not an ISO timestamp) the incoming string is stored as
\* it is, replacing a stored timestamp by an unparsable one included.
C5_LaterOfParsable ==
    [][UpdatesExisting =>
          LET old == workflows[iter'.matched].observability.last_updated_at
              inc == CurrentInstance.state.last_updated_at
              new == workflows'[iter'.matched].observability.last_updated_at
          IN  /\ ~Truthy(inc) => new = old
              /\ (Parses(old) /\ Parses(inc)) =>
                    /\ new = IF IsoEpoch[inc] >= IsoEpoch[old] THEN inc ELSE old
                    /\ Parses(new) /\ IsoEpoch[new] >= IsoEpoch[old]
              /\ (Truthy(inc) /\ ~(Parses(old) /\ Parses(inc))) => new = inc
      ]_vars

\* An instance with an earlier timestamp has updated a workflow and the later
\* stored timestamp is still there.
C5_Witness ==
    /\ pc = "running" /\ iter.instance = "I2" /\ iter.match_type = "fuzzy"
    /\ InstanceById["I2"].state.last_updated_at = "2026-01-01T00:00:00Z"
    /\ workflows[iter.matched].observability.last_updated_at = "2026-01-02T00:00:00Z"

\* C5 as stated: whatever timestamp the incoming instance carries, a stored
\* ISO timestamp is followed by an ISO timestamp that is not earlier.
C5_NeverRegresses ==
    [][UpdatesExisting =>
          LET old == workflows[iter'.matched].observability.last_updated_at
              new == workflows'[iter'.matched].observability.last_updated_at
          IN  Parses(old) => Parses(new) /\ IsoEpoch[new] >= IsoEpoch[old]
      ]_vars

\* The iteration writes an instance (it is in scope, or the scope is off).
WritesInstance == Iterates /\ ~iter'.skipped

\* The positions of the fuzzy candidates whose display key is at least
\* threshold-similar to the given display key.
FuzzyHits(display) ==
    {existing_fuzzy[i][1] : i \in {j \in 1..Len(existing_fuzzy) :
        ScoreGe(_similarity(display, existing_fuzzy[j][2]), fuzzy_threshold)}}

\* The workflows at positions other than m are what they were.
OthersUntouched(m) ==
    \A i \in 1..Len(workflows) : i # m => workflows'[i] = workflows[i]

\* C6: for an instance that is written the rules are tried in the order exact
\* key, fuzzy, create.  If the instance has every key field and its key is in
\* the exact index, the indexed workflow is the one updated, with match type
\* "exact" and score 1.0, whatever the fuzzy candidates are; otherwise, if some
\* candidate reaches the threshold the match is "fuzzy" to an existing
\* workflow; a workflow is created exactly when neither is the case.
C6_ExactThenFuzzyThenCreate ==
    [][WritesInstance =>
          LET key == instance_exact_key(CurrentInstance)
              hit == key # NoKey /\ key \in DOMAIN existing_exact
              hits == FuzzyHits(iter'.display)
              m == iter'.matched
              audit == workflows'[m].observability.reconciliation
          IN  /\ hit => /\ m = existing_exact[key]
                        /\ iter'.match_type = "exact"
                        /\ audit.match_score = 10000
                        /\ Len(workflows') = Len(workflows)
              /\ (~hit /\ hits # {}) => /\ iter'.match_type = "fuzzy"
                                        /\ m \in hits
                                        /\ Len(workflows') = Len(workflows)
              /\ (~hit /\ hits = {}) => /\ iter'.match_type = "created"
                                        /\ m = Len(workflows) + 1
                                        /\ Len(workflows') = Len(workflows) + 1
              /\ audit.match_type = iter'.match_type
              /\ workflows'[m].observability.source_instance_key
                    = CurrentInstance.instance_key
              /\ OthersUntouched(m)
      ]_vars

\* An instance has been matched by its exact key to the second workflow of the
\* list although the first workflow is a fuzzy candidate above the threshold.
C6_Witness ==
    /\ pc = "running" /\ ~iter.skipped
    /\ iter.match_type = "exact" /\ iter.matched = 2
    /\ \E i \in 1..Len(existing_fuzzy) :
          /\ existing_fuzzy[i][1] = 1
          /\ ScoreGe(_similarity(iter.display, existing_fuzzy[i][2]), fuzzy_threshold)
    /\ workflows[2].observability.reconciliation.match_type = "exact"

\* The instance of the iteration has a complete key that is in the exact index.
ExactHit ==
    LET key == instance_exact_key(CurrentInstance)
    IN  key # NoKey /\ key \in DOMAIN existing_exact

\* C7: when the exact key gives no match, the fuzzy candidates are the
\* workflows of the list in list order (the store's, then those created in the
\* run); the candidate whose display key is most similar to the instance's
\* "{role} - {client} - {process}" key is selected, the first of them when
\* several share the highest score, and it is the match only if that score is
\* at least the threshold; otherwise there is no fuzzy match and a workflow is
\* created.
C7_BestFirstAboveThreshold ==
    [][(WritesInstance /\ ~ExactHit) =>
          LET n == Len(existing_fuzzy)
              score(i) == _similarity(iter'.display, existing_fuzzy[i][2])
              best == {i \in 1..n : \A j \in 1..n : ScoreGe(score(i), score(j))}
              m == iter'.matched
          IN  /\ n = Len(workflows)
              /\ \A i \in 1..n : existing_fuzzy[i][1] = i
              /\ iter'.display =
                    _display_key(Or(CurrentInstance.canonical_role,
                                    CurrentInstance.candidate_role_raw),
                                 Or(CurrentInstance.canonical_client,
                                    CurrentInstance.candidate_client_raw),
                                 Or(CurrentInstance.canonical_process, "unknown"))
              /\ IF \E i \in best : ScoreGe(score(i), fuzzy_threshold)
                 THEN LET first == CHOOSE i \in best : \A j \in best : i <= j
                      IN  /\ iter'.match_type = "fuzzy"
                          /\ m = first
                          /\ iter'.match_score = score(first)
                          /\ workflows'[m].observability.reconciliation.match_score
                                = Round4(score(first))
                 ELSE /\ iter'.match_type = "created"
                      /\ existing_fuzzy' = Append(existing_fuzzy, <<n + 1, iter'.display>>)
      ]_vars

\* An instance has been fuzzy-matched to the first workflow of the list while
\* the second, created in the same run, has the same score.
C7_Witness ==
    /\ pc = "running" /\ runs = 1 /\ pos = 4
    /\ instances = <<"I2", "I3", "I1">>
    /\ iter.match_type = "fuzzy" /\ iter.matched = 1
    /\ Len(existing_fuzzy) = 2
    /\ _similarity(iter.display, existing_fuzzy[1][2]) = iter.match_score
    /\ _similarity(iter.display, existing_fuzzy[2][2]) = iter.match_score
    /\ ScoreGe(iter.match_score, fuzzy_threshold)

\* The record at position m holds the identity and observability fields of
\* the instance.
HoldsFieldsOf(wf, inst) ==
    /\ wf.process_id = Or(inst.canonical_process, "unknown")
    /\ wf.client = Or(inst.canonical_client, Or(inst.candidate_client_raw, inst.candidate_client))
    /\ wf.role = Or(inst.canonical_role, Or(inst.candidate_role_raw, inst.candidate_role))
    /\ wf.observability.source_instance_key = inst.instance_key
    /\ wf.observability.confidence = inst.state.confidence
    /\ wf.observability.health = Or(inst.health, "unknown")

\* C8 (as the code has it): a workflow created in a run is matchable by the
\* later instances of the run.  An instance that creates a workflow and has a
\* complete exact key enters the key in the exact index, pointing at the new
\* workflow; no other iteration changes the index; an instance whose complete
\* key is in the index is matched "exact" to the indexed workflow, no workflow
\* is added and the record then holds that instance's fields.  So when an
\* instance has created a workflow, the next instance with the same complete
\* key is matched to that workflow.  Whether the first instance with a key
\* absent from the store creates a workflow is decided by the fuzzy step.
C8_CreatedKeyIsMatchedLater ==
    [][WritesInstance =>
          LET key == instance_exact_key(CurrentInstance)
              m == iter'.matched
          IN  /\ iter'.match_type = "created" =>
                    /\ key \notin DOMAIN existing_exact
                    /\ m = Len(workflows) + 1
                    /\ existing_exact' = IF key = NoKey THEN existing_exact
                                         ELSE (key :> m) @@ existing_exact
              /\ iter'.match_type # "created" => existing_exact' = existing_exact
              /\ (key # NoKey /\ key \in DOMAIN existing_exact) =>
                    /\ iter'.match_type = "exact"
                    /\ m = existing_exact[key]
                    /\ Len(workflows') = Len(workflows)
              /\ (pos > 1 /\ iter.match_type = "created" /\ key # NoKey
                    /\ iter.exact_key = key) =>
                    /\ iter'.match_type = "exact"
                    /\ m = iter.matched
                    /\ Len(workflows') = Len(workflows)
              /\ HoldsFieldsOf(workflows'[m], CurrentInstance)
      ]_vars

\* Two instances with the same complete key were run on an empty store: the
\* first created the workflow, the second was matched to it by key, and the
\* one record holds the second instance's fields.
C8_Witness ==
    /\ pc = "running" /\ pos = 3 /\ store = <<>>
    /\ instances = <<"I1", "I7">>
    /\ iter.match_type = "exact" /\ iter.matched = 1
    /\ counters.match_counts.created = 1 /\ counters.match_counts.exact = 1
    /\ Len(workflows) = 1
    /\ workflows[1].observability.source_instance_key = "thread:7"
    /\ workflows[1].observability.health = "at_risk"

\* C8 as stated: of the written instances of a run that carry the same
\* complete exact key, absent from the store, the first creates a workflow and
\* every later one is matched to an existing workflow without adding one.
C8_FirstCreatesSecondMatches ==
    [][WritesInstance =>
          LET key == instance_exact_key(CurrentInstance)
              same == {j \in 1..Len(instances) :
                          instance_exact_key(InstanceById[instances[j]]) = key}
          IN  (key # NoKey /\ key \notin DOMAIN build_existing_exact(store)
                 /\ Cardinality(same) >= 2) =>
                 IF \A j \in same : pos <= j
                 THEN iter'.match_type = "created"
                 ELSE iter'.match_type # "created" /\ Len(workflows') = Len(workflows)
      ]_vars

(***************************************************************************)
(* Properties of the pure functions.                                       *)
(***************************************************************************)

\* The non-empty elements of s, each at its first occurrence only.
DistinctTruthy(s) ==
    LET firsts == SelectSeq([i \in 1..Len(s) |-> i],
                            LAMBDA i : Truthy(s[i]) /\ \A j \in 1..(i - 1) : s[j] # s[i])
    IN  [k \in 1..Len(firsts) |-> s[firsts[k]]]

\* The first n elements of s (all of s when it has fewer).
FirstN(s, n) == SubSeq(s, 1, IF n < Len(s) THEN n ELSE Len(s))

\* C4 as stated: the merge is exactly the first max_ids elements of the
\* duplicate-free, first-seen-order concatenation of the stored and the
\* incoming ids, empty ids skipped; merging the same incoming ids into the
\* result again changes nothing.
C4_MergeIsCappedUnion ==
    call.op = "_merge_evidence_ids" =>
        /\ result = FirstN(DistinctTruthy(call.existing \o call.incoming), call.max_ids)
        /\ _merge_evidence_ids(result, call.incoming, call.max_ids) = result

\* Process, client and role of an argument tuple are all non-empty.
CompleteTriple(x) == Truthy(x[1]) /\ Truthy(x[2]) /\ Truthy(x[3])

\* C9: generate_workflow_id is a function of its arguments: two calls with the
\* same arguments give the same id; when canonical process, client and role
\* are all non-empty in both calls and equal, the ids are equal whatever the
\* instance keys and raw fields are; when the triple is incomplete in both
\* calls, the ids are equal as soon as instance_key, canonical_process,
\* raw_client and raw_role are equal.
C9_IdFunctionOfIdentity ==
    call.op = "generate_workflow_id" =>
        LET a == call.a
            b == call.b
        IN  /\ a = b => result[1] = result[2]
            /\ (CompleteTriple(a) /\ CompleteTriple(b)
                  /\ a[1] = b[1] /\ a[2] = b[2] /\ a[3] = b[3]) => result[1] = result[2]
            /\ (~CompleteTriple(a) /\ ~CompleteTriple(b)
                  /\ a[4] = b[4] /\ a[1] = b[1] /\ a[5] = b[5] /\ a[6] = b[6])
                  => result[1] = result[2]

\* Two calls with the same complete triple and different instance keys and
\* raw clients have given the same id.
C9_Witness ==
    /\ call.op = "generate_workflow_id"
    /\ CompleteTriple(call.a) /\ CompleteTriple(call.b)
    /\ call.a[4] = "thread:1" /\ call.b[4] = "thread:2"
    /\ call.a[5] = "Altum" /\ call.b[5] = "Globex"
    /\ result[1] = result[2]
    /\ result[1] = "wf_f905311eaf8a"

\* The ordered step ids of the processes of the definition document.
OrderedSteps(process_id) ==
    CASE process_id = "recruiting" -> <<"s1", "s2", "s3">>
      [] process_id = "onboarding" -> <<"o1">>
      [] OTHER -> <<>>

\* C10: for a process with ordered steps and a current step among them,
\* infer_steps_from_position returns one entry per step in definition order;
\* the steps before the current one carry the inferred-complete label, the
\* current step is "blocked" for a blocked status, "completed" for a done or
\* completed status (the status in any letter case), else "in_progress", and
\* the later steps are "not_started".  It returns None when the process id or
\* the current step is missing or empty, or the step is not a step of the
\* process.
C10_PositionalSteps ==
    call.op = "infer_steps_from_position" =>
        LET steps == OrderedSteps(call.process_id)
        IN  IF ~Truthy(call.process_id) \/ ~Truthy(call.current_step_id)
               \/ ~InSeq(call.current_step_id, steps)
            THEN result = NoList
            ELSE LET index == CHOOSE i \in 1..Len(steps) : steps[i] = call.current_step_id
                 IN  /\ Len(result) = Len(steps)
                     /\ \A i \in 1..Len(steps) :
                           /\ result[i].id = steps[i]
                           /\ i < index => result[i].status = call.completed_label
                           /\ i > index => result[i].status = "not_started"
                     /\ result[index].status =
                           IF call.status \in {"blocked", "Blocked", "BLOCKED"} THEN "blocked"
                           ELSE IF call.status \in {"done", "Done", "completed"} THEN "completed"
                           ELSE "in_progress"

\* The call of the spec's example, with the status capitalised: steps
\* s1, s2, s3, current step s2, status Blocked.
C10_Witness ==
    /\ call.op = "infer_steps_from_position"
    /\ call.process_id = "recruiting" /\ call.current_step_id = "s2"
    /\ call.status = "Blocked" /\ call.completed_label = "completed_inferred"
    /\ [i \in 1..3 |-> result[i].status] = <<"completed_inferred", "blocked", "not_started">>
    /\ [i \in 1..3 |-> result[i].id] = <<"s1", "s2", "s3">>

\* The phases of the definition document, in order, and the steps of each.
OrderedPhases(process_id) ==
    CASE process_id = "recruiting" -> <<"phase-1", "phase-2">>
      [] process_id = "onboarding" -> <<"kickoff", "wrapup">>
      [] OTHER -> <<>>

StepsOfPhase(phase_id) ==
    CASE phase_id = "phase-1" -> {"s1", "s2"}
      [] phase_id = "phase-2" -> {"s3"}
      [] phase_id = "kickoff" -> {"o1"}
      [] OTHER -> {}

\* The status the step list gives a step: that of its last entry, None when
\* the list has no entry for it.
ListedStatus(steps, step_id) ==
    LET at == {i \in 1..Len(steps) : steps[i].id = step_id}
    IN  IF at = {} THEN None ELSE steps[CHOOSE i \in at : \A j \in at : j <= i].status

\* C11: infer_phases_from_steps gives every phase of the process, in order, a
\* status derived from the statuses the step list gives the phase's steps:
\* "unknown" for a phase without steps; the inferred-complete label when every
\* step is completed or inferred-complete; "in_progress" when that is not so
\* and some step is in_progress or blocked; "not_started" in every other case.
C11_PhaseStatusBottomUp ==
    (call.op = "infer_phases_from_steps" /\ result # NoList) =>
        LET phases == OrderedPhases(call.process_id)
            label == call.completed_label
        IN  /\ Len(result) = Len(phases)
            /\ \A i \in 1..Len(phases) :
                  LET sts == {ListedStatus(call.steps, s) : s \in StepsOfPhase(phases[i])}
                  IN  /\ result[i].id = phases[i]
                      /\ result[i].status =
                            IF sts = {} THEN "unknown"
                            ELSE IF sts \subseteq {"completed", label} THEN label
                            ELSE IF sts \cap {"in_progress", "blocked"} # {} THEN "in_progress"
                            ELSE "not_started"

\* The phases of a list in which the first phase has a completed and a blocked
\* step and the second phase's step is not listed.
C11_Witness ==
    /\ call.op = "infer_phases_from_steps"
    /\ call.process_id = "recruiting" /\ call.completed_label = "completed_inferred"
    /\ Len(call.steps) = 2
    /\ call.steps[1].id = "s1" /\ call.steps[1].status = "completed_inferred"
    /\ call.steps[2].id = "s2" /\ call.steps[2].status = "blocked"
    /\ [i \in 1..2 |-> result[i].status] = <<"in_progress", "not_started">>

(***************************************************************************)
(* Properties of the canonicalizers and of the enricher.                   *)
(***************************************************************************)

\* The instance of a _compute_health or _compute_steps call, its catalog
\* entry when its canonical process is a catalog key, and the whole days
\* thresholds are compared with.
Matched(canonical_process, process_catalog) ==
    /\ canonical_process \notin {None, ""}
    /\ Loaded(process_catalog)
    /\ InCatalog(canonical_process, process_catalog)
ElapsedSeconds(ts) == IsoEpoch[now] - IsoEpoch[ts]
AtLeastDays(ts, days) == ElapsedSeconds(ts) >= days * 86400
IsBlocked(status) == status \in {"blocked", "Blocked"}

\* C12: health follows a fixed priority: "unknown" when last_updated_at is
\* missing or does not parse; otherwise, with the thresholds of the matched
\* process, "overdue" when the elapsed days reach overdue_after_days, also for
\* a blocked instance; otherwise "at_risk" when the status is blocked or the
\* elapsed days reach at_risk_after_days; otherwise "on_track".
C12_HealthPriority ==
    call.op = "_compute_health" =>
        LET ts == call.instance.state.last_updated_at
            status == call.instance.state.status
            cp == call.instance.canonical_process
        IN  IF ts \in {None, ""} \/ ts \notin DOMAIN IsoEpoch THEN result = "unknown"
            ELSE /\ result # "unknown"
                 /\ Matched(cp, call.process_catalog) =>
                      LET h == ProcessSpec(cp, call.process_catalog).health
                      IN  result = IF AtLeastDays(ts, h.overdue_after_days) THEN "overdue"
                                   ELSE IF IsBlocked(status) \/ AtLeastDays(ts, h.at_risk_after_days)
                                        THEN "at_risk"
                                   ELSE "on_track"

\* A blocked instance of a catalog process past the overdue threshold is
\* classified overdue.
C12_Witness ==
    /\ call.op = "_compute_health"
    /\ Matched(call.instance.canonical_process, call.process_catalog)
    /\ IsBlocked(call.instance.state.status)
    /\ call.instance.state.last_updated_at = "2025-12-31T12:00:00Z"
    /\ result = "overdue"

\* C13: an instance without a matched catalog process (canonical_process null
\* or not a catalog key) is classified with the default thresholds: not
\* blocked and last updated 7 or more days before now it is "at_risk", 14 or
\* more days before now it is "overdue".
C13_DefaultThresholds ==
    (/\ call.op = "_compute_health"
     /\ ~Matched(call.instance.canonical_process, call.process_catalog)
     /\ ~IsBlocked(call.instance.state.status)
     /\ call.instance.state.last_updated_at \in DOMAIN IsoEpoch)
    => /\ AtLeastDays(call.instance.state.last_updated_at, 14) => result = "overdue"
       /\ (/\ AtLeastDays(call.instance.state.last_updated_at, 7)
           /\ ~AtLeastDays(call.instance.state.last_updated_at, 14)) => result = "at_risk"

\* The position of a step in the step list of a catalog process.
StepIndex(step, steps) == CHOOSE i \in 1..Len(steps) : steps[i] = step

\* C14: when the step text matches a catalog step of the canonical process,
\* every catalog step before the matched one is "completed", every step after
\* it "not_started", and the matched step is "blocked" for the status blocked,
\* "completed" for the status done or completed, "in_progress" for any other
\* status.
C14_StepsAroundMatch ==
    (/\ call.op = "_compute_steps"
     /\ result.canonical_current_step_id # None
     /\ InSeq(result.canonical_current_step_id,
              ProcessSpec(call.instance.canonical_process, call.process_catalog).steps))
    => LET steps == ProcessSpec(call.instance.canonical_process, call.process_catalog).steps
           m == StepIndex(result.canonical_current_step_id, steps)
           status == call.instance.state.status
       IN  \A i \in 1..Len(steps) :
               result.steps_state[steps[i]] =
                   IF i < m THEN "completed"
                   ELSE IF i > m THEN "not_started"
                   ELSE IF status = "blocked" THEN "blocked"
                   ELSE IF status \in {"done", "completed"} THEN "completed"
                   ELSE "in_progress"

\* The enriched instances of an enrich_instances call that have a canonical
\* process, and those whose step text matched a catalog step.
WithProcess(enriched) == {i \in 1..Len(enriched) : enriched[i].canonical_process # None}
WithStep(enriched) == {i \in 1..Len(enriched) : enriched[i].canonical_current_step_id # None}
EnrichCall == call.op \in {"enrich_instances", "enrich_again"}

\* C15 (amended): an instance without a canonical process gets steps_state,
\* steps_total and steps_done null and is not counted in the steps-state
\* coverage; an instance with a canonical process whose step text matches no
\* catalog step gets every catalog step "unknown", steps_total the number of
\* catalog steps and steps_done 0, and is counted in the steps-state coverage,
\* which is therefore the rate of instances with a canonical process.
C15_NoMatchIsUnknownAndCounted ==
    EnrichCall =>
        /\ \A i \in 1..Len(result.enriched) :
             LET obj == result.enriched[i]
             IN  /\ obj.canonical_process = None =>
                      /\ obj.steps_state = NoStepsState
                      /\ obj.steps_total = NoInt
                      /\ obj.steps_done = NoInt
                 /\ (obj.canonical_process # None /\ obj.canonical_current_step_id = None) =>
                      LET steps == ProcessSpec(obj.canonical_process, call.process_catalog).steps
                      IN  /\ DOMAIN obj.steps_state = {steps[k] : k \in 1..Len(steps)}
                          /\ \A s \in DOMAIN obj.steps_state : obj.steps_state[s] = "unknown"
                          /\ obj.steps_total = Len(steps)
                          /\ obj.steps_done = 0
        /\ result.phase_b.coverage.steps_state_pct
             = IF Len(result.enriched) = 0 THEN 0
               ELSE Round4(<<Cardinality(WithProcess(result.enriched)), Len(result.enriched)>>)

\* One instance with the canonical process recruiting and the step text
\* "mystery": three unknown steps, counted in the steps-state coverage.
C15_Witness ==
    /\ call.op = "enrich_instances"
    /\ Len(result.enriched) = 1
    /\ result.enriched[1].canonical_process = "recruiting"
    /\ result.enriched[1].canonical_current_step_id = None
    /\ result.enriched[1].steps_total = 3
    /\ result.phase_b.coverage.steps_state_pct = 10000

\* C15 as stated: an instance without a canonical process, or with one but
\* without a step match, has steps_state and steps_total null and steps_done
\* 0 or null, and only the instances with a step match are counted in the
\* steps-state coverage.
C15_NoMatchIsNull ==
    EnrichCall =>
        /\ \A i \in 1..Len(result.enriched) :
             LET obj == result.enriched[i]
             IN  (obj.canonical_process = None \/ obj.canonical_current_step_id = None) =>
                     /\ obj.steps_state = NoStepsState
                     /\ obj.steps_total = NoInt
                     /\ obj.steps_done \in {0, NoInt}
        /\ result.phase_b.coverage.steps_state_pct
             = IF Len(result.enriched) = 0 THEN 0
               ELSE Round4(<<Cardinality(WithStep(result.enriched)), Len(result.enriched)>>)

\* The raw and the canonical fields of an enriched instance.
RawFields(obj) == <<obj.candidate_process_raw, obj.candidate_client_raw, obj.candidate_role_raw>>
CanonicalFields(obj) == <<obj.canonical_process, obj.canonical_client, obj.canonical_role>>

\* C16: the *_raw fields are written on first enrichment only.  The first
\* enrichment copies each candidate field to its *_raw field unless the
\* instance already holds that key; enriching the output again, also after
\* its candidate fields were changed, leaves the three *_raw fields as they
\* were and gives the same canonical fields, which are those of the preserved
\* raw values.
C16_RawWrittenOnce ==
    /\ call.op = "enrich_instances" =>
         \A i \in 1..Len(result.enriched) :
             LET inst == call.instances[i]
                 obj == result.enriched[i]
             IN  /\ obj.candidate_process_raw
                      = IF inst.candidate_process_raw = Missing THEN inst.candidate_process
                        ELSE inst.candidate_process_raw
                 /\ obj.candidate_client_raw
                      = IF inst.candidate_client_raw = Missing THEN inst.candidate_client
                        ELSE inst.candidate_client_raw
                 /\ obj.candidate_role_raw
                      = IF inst.candidate_role_raw = Missing THEN inst.candidate_role
                        ELSE inst.candidate_role_raw
    /\ call.op = "enrich_again" =>
         /\ Len(result.enriched) = Len(call.first)
         /\ \A i \in 1..Len(result.enriched) :
                /\ RawFields(result.enriched[i]) = RawFields(call.first[i])
                /\ CanonicalFields(result.enriched[i]) = CanonicalFields(call.first[i])
                /\ Loaded(call.process_catalog) =>
                     result.enriched[i].canonical_process
                       = canonicalize_process(call.first[i].candidate_process_raw, call.process_catalog)
                /\ Loaded(call.clients_catalog) =>
                     result.enriched[i].canonical_client
                       = canonicalize_client(call.first[i].candidate_client_raw, call.clients_catalog)
                /\ call.roles_catalog # NoRoles =>
                     result.enriched[i].canonical_role
                       = canonicalize_role(call.first[i].candidate_role_raw, call.roles_catalog)

\* An instance first enriched with candidate_process "hiring" is enriched
\* again after its candidate fields became delivery / Globex / PM: it keeps
\* the raw process "hiring" and the canonical process recruiting.
C16_Witness ==
    /\ call.op = "enrich_again"
    /\ Len(result.enriched) >= 1
    /\ call.instances[1].instance_key = "thread:1"
    /\ call.instances[1].candidate_process = "delivery"
    /\ result.enriched[1].candidate_process = "delivery"
    /\ result.enriched[1].candidate_process_raw = "hiring"
    /\ result.enriched[1].canonical_process = "recruiting"
    /\ result.enriched[1].canonical_client = "Acme Inc"

\* The elements of a sequence.
Elems(s) == {s[i] : i \in 1..Len(s)}

\* Entries of a process catalog whose key, display name or some alias equals
\* the raw text under normalize_text.
KeyEqual(raw, catalog) == {e \in Elems(catalog) : normalize_text(raw) = normalize_text(e.process_id)}
NameEqual(raw, catalog) == {e \in Elems(catalog) : normalize_text(raw) = normalize_text(e.display_name)}
AliasEqual(raw, catalog) ==
    {e \in Elems(catalog) : \E a \in Elems(e.process_aliases) : normalize_text(raw) = normalize_text(a)}

\* Clients whose name or some alias equals the raw text up to case and
\* whitespace (norm_text).
ClientNameEqual(raw, catalog) == {c \in Elems(catalog) : norm_text(raw) = norm_text(c.name)}
ClientAliasEqual(raw, catalog) ==
    {c \in Elems(catalog) : \E a \in Elems(c.aliases) : norm_text(raw) = norm_text(a)}

\* Steps of a process whose id equals the raw text up to case and whitespace,
\* and steps one of whose aliases equals it under normalize_text.
StepIdEqual(raw, spec) == {s \in Elems(spec.steps) : norm_text(raw) = norm_text(s)}
StepAliasEqual(raw, spec) ==
    {sa.step : sa \in {x \in Elems(spec.step_aliases) :
                          \E a \in Elems(x.aliases) : normalize_text(raw) = normalize_text(a)}}

\* C17 (amended): in each function an exact match of the catalog identity
\* under the function's own comparison key outranks an exact alias match,
\* which outranks a containment match, whatever the order of the catalog
\* entries.  The key is normalize_text for process keys and names, and
\* equality up to case and whitespace for client names and step ids.
C17_ExactThenAliasThenSubstring ==
    /\ (call.op = "canonicalize_process" /\ normalize_text(call.process_raw) # <<>>) =>
         LET raw == call.process_raw
             cat == call.process_catalog
         IN  IF KeyEqual(raw, cat) # {} THEN result \in {e.process_id : e \in KeyEqual(raw, cat)}
             ELSE IF NameEqual(raw, cat) # {} THEN result \in {e.process_id : e \in NameEqual(raw, cat)}
             ELSE AliasEqual(raw, cat) # {} => result \in {e.process_id : e \in AliasEqual(raw, cat)}
    /\ (call.op = "canonicalize_client" /\ call.client_raw # None) =>
         LET raw == call.client_raw
             cat == call.clients_catalog
         IN  IF ClientNameEqual(raw, cat) # {} THEN result \in {c.name : c \in ClientNameEqual(raw, cat)}
             ELSE ClientAliasEqual(raw, cat) # {} => result \in {c.name : c \in ClientAliasEqual(raw, cat)}
    /\ (/\ call.op = "match_step"
        /\ Matched(call.canonical_process, call.process_catalog)
        /\ normalize_text(call.step_raw) # <<>>) =>
         LET raw == call.step_raw
             spec == ProcessSpec(call.canonical_process, call.process_catalog)
         IN  IF StepIdEqual(raw, spec) # {}
             THEN result.match_type = "exact" /\ result.step_id \in StepIdEqual(raw, spec)
             ELSE IF StepAliasEqual(raw, spec) # {}
             THEN result.match_type = "alias" /\ result.step_id \in StepAliasEqual(raw, spec)
             ELSE result.match_type \in {"fuzzy", "none"}

\* "delivery" is the key of one process and an alias of client_onboarding,
\* which comes first in the catalog: the key wins.
C17_Witness ==
    /\ call.op = "canonicalize_process"
    /\ call.process_raw = "delivery"
    /\ call.process_catalog[1].process_id = "recruiting"
    /\ call.process_catalog[2].process_id = "client_onboarding"
    /\ \E a \in Elems(call.process_catalog[2].process_aliases) : a = "delivery"
    /\ result = "delivery"

\* C17 as stated: an input that equals, after normalization, the identity of
\* an entry is resolved to that entry, also when it is an alias of another
\* entry.
C17_NormalizedIdentityWins ==
    /\ (call.op = "canonicalize_process" /\ normalize_text(call.process_raw) # <<>>) =>
         (KeyEqual(call.process_raw, call.process_catalog) # {} =>
            result \in {e.process_id : e \in KeyEqual(call.process_raw, call.process_catalog)})
    /\ (call.op = "canonicalize_client" /\ normalize_text(call.client_raw) # <<>>) =>
         \A c \in Elems(call.clients_catalog) :
            normalize_text(call.client_raw) = normalize_text(c.name) => result = c.name
    /\ (/\ call.op = "match_step"
        /\ Matched(call.canonical_process, call.process_catalog)
        /\ normalize_text(call.step_raw) # <<>>) =>
         \A s \in Elems(ProcessSpec(call.canonical_process, call.process_catalog).steps) :
            normalize_text(call.step_raw) = normalize_text(s) => result.step_id = s

\* Entries one of whose aliases contains the normalized raw text or is
\* contained in it, and steps whose id or some alias is contained in it.
AliasOverlap(raw, catalog) ==
    {e \in Elems(catalog) : \E a \in Elems(e.process_aliases) :
        /\ normalize_text(a) # <<>>
        /\ \/ Contains(normalize_text(a), normalize_text(raw))
           \/ Contains(normalize_text(raw), normalize_text(a))}
StepsContained(raw, spec) ==
    {s \in Elems(spec.steps) : Contains(normalize_text(s), normalize_text(raw))}
    \cup {sa.step : sa \in {x \in Elems(spec.step_aliases) :
                               \E a \in Elems(x.aliases) : Contains(normalize_text(a), normalize_text(raw))}}

\* C18: a tier decides only when exactly one entry matches at it.  When the
\* input matches two or more entries at the tier it reaches (the same alias
\* under two entries, or containment in two entries), canonicalize_process
\* returns null and match_step returns step_id null with match_type "none".
C18_TiesGiveNoMatch ==
    /\ (/\ call.op = "canonicalize_process"
        /\ normalize_text(call.process_raw) # <<>>
        /\ KeyEqual(call.process_raw, call.process_catalog) = {}
        /\ NameEqual(call.process_raw, call.process_catalog) = {}) =>
         IF AliasEqual(call.process_raw, call.process_catalog) # {}
         THEN Cardinality(AliasEqual(call.process_raw, call.process_catalog)) >= 2 => result = None
         ELSE Cardinality(AliasOverlap(call.process_raw, call.process_catalog)) >= 2 => result = None
    /\ (/\ call.op = "match_step"
        /\ Matched(call.canonical_process, call.process_catalog)
        /\ normalize_text(call.step_raw) # <<>>
        /\ StepIdEqual(call.step_raw, ProcessSpec(call.canonical_process, call.process_catalog)) = {}) =>
         LET spec == ProcessSpec(call.canonical_process, call.process_catalog)
             none == result.step_id = None /\ result.match_type = "none"
         IN  IF StepAliasEqual(call.step_raw, spec) # {}
             THEN Cardinality(StepAliasEqual(call.step_raw, spec)) >= 2 => none
             ELSE Cardinality(StepsContained(call.step_raw, spec)) >= 2 => none

\* The catalog texts of a process: its step ids and all step aliases.
StepTexts(spec) == Elems(spec.steps) \cup UNION {Elems(sa.aliases) : sa \in Elems(spec.step_aliases)}

\* C19: the containment tier of match_step is one-directional.  A fuzzy
\* result names a step whose id or alias, normalized, is a substring of the
\* normalized raw text; a raw text that equals no step id or alias and
\* contains none of them gives step_id null with match_type "none", also when
\* it is a proper substring of a step id or alias.
C19_ContainmentOneWay ==
    (/\ call.op = "match_step"
     /\ Matched(call.canonical_process, call.process_catalog)
     /\ normalize_text(call.step_raw) # <<>>) =>
        LET spec == ProcessSpec(call.canonical_process, call.process_catalog)
            step_n == normalize_text(call.step_raw)
        IN  /\ result.match_type = "fuzzy" =>
                 /\ result.step_id \in StepsContained(call.step_raw, spec)
                 /\ Contains(normalize_text(result.matched_alias), step_n)
            /\ (/\ StepIdEqual(call.step_raw, spec) = {}
                /\ StepAliasEqual(call.step_raw, spec) = {}
                /\ \A t \in StepTexts(spec) : ~Contains(normalize_text(t), step_n)) =>
                 result.step_id = None /\ result.match_type = "none"

\* "details" is a proper substring of the normalized step id "role details"
\* and of the alias "Role Details", and contains no catalog text: no match.
C19_Witness ==
    /\ call.op = "match_step"
    /\ call.canonical_process = "recruiting"
    /\ call.step_raw = "details"
    /\ InCatalog("recruiting", call.process_catalog)
    /\ \E t \in StepTexts(ProcessSpec("recruiting", call.process_catalog)) :
          /\ Contains(normalize_text("details"), normalize_text(t))
          /\ normalize_text(t) # normalize_text("details")
    /\ result.step_id = None
    /\ result.match_type = "none"

\* Equality of two fractions <<numerator, denominator>>.
SameFraction(f, g) == f[1] * g[2] = g[1] * f[2]

\* a / b clamped to [0.01, 1.0], for b > 0.
Clamped(a, b) == IF a >= b THEN <<1, 1>> ELSE IF 100 * a < b THEN <<1, 100>> ELSE <<a, b>>

\* C20: every detailed match_step result is internally consistent:
\* match_type is "none" exactly when step_id is null, and then the score is
\* 0.0; "exact" and "alias" have score 1.0; "fuzzy" has the length of the
\* matched catalog text divided by the length of the raw text, both
\* normalized, clamped to [0.01, 1.0].
C20_ResultConsistent ==
    call.op = "match_step" =>
        /\ (result.match_type = "none") <=> (result.step_id = None)
        /\ result.match_type = "none" => SameFraction(result.score, <<0, 1>>)
        /\ result.match_type \in {"exact", "alias"} => SameFraction(result.score, <<1, 1>>)
        /\ result.match_type = "fuzzy" =>
             SameFraction(result.score,
                          Clamped(Len(normalize_text(result.matched_alias)),
                                  Len(normalize_text(call.step_raw))))
        /\ result.match_type \in {"none", "exact", "alias", "fuzzy"}
        /\ (\/ call.step_raw \in {None, ""}
            \/ ~Matched(call.canonical_process, call.process_catalog)) => result.match_type = "none"

(***************************************************************************)
(* Properties of the normalizer, the catalog loader and the store writer.  *)
(***************************************************************************)

\* The normalized steps of a step list, and whether they differ pairwise.
NormalizedSteps(steps) == {normalize_text(steps[i]) : i \in 1..Len(steps)}
StepsDistinct(steps) == Cardinality(NormalizedSteps(steps)) = Len(steps)

\* The thresholds a flat spec asks for, absent keys taking 7 and 14 days.
AskedAtRisk(spec) == IF spec.health.at_risk_after_days = NoInt THEN 7 ELSE spec.health.at_risk_after_days
AskedOverdue(spec) == IF spec.health.overdue_after_days = NoInt THEN 14 ELSE spec.health.overdue_after_days

\* A catalog entry with steps, normalized-distinct, and ordered thresholds.
WellFormedProcess(p) ==
    /\ p.steps # <<>>
    /\ StepsDistinct(p.steps)
    /\ p.health.overdue_after_days >= p.health.at_risk_after_days

\* C21: compiling a flat spec raises when its step list is empty, when two
\* steps have the same normalized text, or when the overdue threshold is
\* below the at-risk threshold; so every process a successful load took from
\* a flat spec has a non-empty list of normalized-distinct steps and
\* overdue_after_days >= at_risk_after_days.
C21_InvalidSpecRefused ==
    /\ call.op = "_compile_from_process_catalog" =>
        /\ (\/ call.spec.steps = <<>>
            \/ ~StepsDistinct(call.spec.steps)
            \/ AskedOverdue(call.spec) < AskedAtRisk(call.spec)) => Raises(result)
        /\ ~Raises(result) => WellFormedProcess(result)
    /\ (call.op = "load_unified_catalog" /\ ~Raises(result)) =>
        \A i \in 2..Len(result.processes) : WellFormedProcess(result.processes[i])

\* A spec with two distinct steps that leaves at_risk_after_days at its
\* default of 7 days and asks for overdue_after_days = 5 is refused.
C21_Witness ==
    /\ call.op = "_compile_from_process_catalog"
    /\ call.spec.steps = <<"kick-off", "setup">>
    /\ call.spec.health = [at_risk_after_days |-> NoInt, overdue_after_days |-> 5]
    /\ result = Raise("health thresholds invalid: overdue < at_risk")

\* C22: normalize_text is idempotent: normalizing the text it returned
\* returns that text again, for every input; a null or an empty input
\* gives the empty string.
C22_NormalizeIdempotent ==
    call.op = "normalize_text" =>
        /\ result.twice = result.once
        /\ (call.value.is_null \/ call.value.chars = <<>>) => result.once = <<>>

\* A text with a capital letter and with punctuation next to white space:
\* "A -a" is normalized to "a a", which differs from the input.
C22_Witness ==
    /\ call.op = "normalize_text"
    /\ call.value = [is_null |-> FALSE, chars |-> <<65, 32, 45, 97>>]
    /\ result.once = <<97, 32, 97>>
    /\ result.twice = <<97, 32, 97>>

(***************************************************************************)
(* Properties of the store writer.                                         *)
(***************************************************************************)

\* No file, or the whole text of some store document.
IsWhole(file) == file = NoFile \/ \E obj \in StoreDocuments : file = FileOf(obj)

\* C24: during and after every write_json of the store, the store file is
\* the whole previous document or the whole new one, never a part of one,
\* and a write that fails leaves the store file as it was before the call.
C24_StoreNeverPartial ==
    /\ [](/\ IsWhole(files.store)
          /\ call.op \in {"write_json", "write_json_done", "write_json_raised"}
                => files.store \in {call.previous, FileOf(call.obj)}
          /\ call.op \in {"write_json", "write_json_raised"}
                => files.store = call.previous)
    /\ [][call'.op = "write_json_raised" => files'.store = files.store]_vars

\* The second write failed part-way: a store file from the first write, and
\* a temporary file holding the start of a different document.
C24_Witness ==
    /\ call.op = "write_json_raised"
    /\ call.n = 2
    /\ call.written \in 1..(Len(document_text(call.obj)) - 1)
    /\ files.store.exists
    /\ files.store # FileOf(call.obj)
    /\ files.tmps # <<>>
    /\ files.tmps[Len(files.tmps)].content = SubSeq(document_text(call.obj), 1, call.written)

(***************************************************************************)
(* Properties of the engine's resolution, inference, ids, indices and      *)
(* counters.                                                               *)
(***************************************************************************)

\* The instance and the workflow the last loop iteration wrote.
LastInstance == InstanceById[iter.instance]
LastWritten == workflows[iter.matched]
HasWritten == iter.instance # None /\ ~iter.skipped

\* The canonical process is a process of the definition: it equals the
\* process id, or its _norm_text equals that of the id or of the name.
EqualsDefinitionProcess(canonical_process, pid) ==
    \/ canonical_process = pid
    \/ _norm_text(canonical_process) = _norm_text(pid)
    \/ _norm_text(canonical_process) = _norm_text(definition.process_name[pid])

\* The instances of the run whose canonical process is "recruiting".
RecruitingInstances == {i \in 1..Len(instances) : InstanceById[instances[i]].canonical_process = "recruiting"}

\* C25: after a run under the default scope on a persisted store that holds
\* a workflow with the legacy process_id "hiring", the rewritten store holds
\* no workflow whose process_id is "hiring", and it holds a workflow with
\* process_id "recruiting" written from a recruiting instance of the run.
C25_LegacyHiringMigrated ==
    (pc = "idle" /\ runs > 0 /\ RecruitingInstances # {}) =>
        /\ \A i \in 1..Len(store) : store[i].process_id # "hiring"
        /\ \E i \in 1..Len(store), n \in RecruitingInstances :
              /\ store[i].process_id = "recruiting"
              /\ store[i].observability.source_instance_key = InstanceById[instances[n]].instance_key

\* C26: a canonical process is resolved against the definition by exact or
\* normalized equality with a process id or name only: the resolved id is
\* null for a canonical process that equals no definition process, and the
\* workflow written for such an instance has no step list, the phase_id
\* "unknown" and no phase list.
C26_ResolvedByEqualityOnly ==
    iter.instance # None =>
        /\ iter.definition_pid # None =>
              EqualsDefinitionProcess(LastInstance.canonical_process, iter.definition_pid)
        /\ (~iter.skipped /\ \A pid \in DOMAIN definition.process_name :
                                ~EqualsDefinitionProcess(LastInstance.canonical_process, pid))
           => /\ LastWritten.steps = NoList
              /\ LastWritten.phase_id = "unknown"
              /\ LastWritten.phases = NoList

\* C29: in a workflow written with a resolved current step, the phase its
\* phase_id names is not "not_started" in its phases list, whatever the
\* instance's status and the position of the current step in the phase.
C29_CurrentPhaseStarted ==
    (HasWritten /\ iter.current_step_id # None /\ LastWritten.phase_id # "unknown") =>
        ListedStatus(LastWritten.phases, LastWritten.phase_id) # "not_started"

\* The workflow ids of a list are pairwise distinct.
DistinctIds(wfs) == \A i, j \in 1..Len(wfs) : wfs[i].workflow_id = wfs[j].workflow_id => i = j

\* C27: workflow ids stay unique: in every run of a chain of runs that
\* starts from the empty store, the workflow ids of the working list, and so
\* of the list the run returns and stores, are pairwise distinct; a created
\* workflow never takes the id of a workflow already in the list.
C27_WorkflowIdsUnique == DistinctIds(workflows) /\ DistinctIds(store)

\* C28: during a run the matching indices agree with the working list: after
\* each instance every key of the exact-key index maps to a workflow whose
\* current canonical client, role and process make up that key, and every
\* display key of the fuzzy candidate list is the display key of its
\* workflow's current role, client and process, also after a match rewrote
\* the workflow's identity fields.
C28_IndicesFollowWorkflows ==
    pc = "running" =>
        /\ \A key \in DOMAIN existing_exact :
              workflow_exact_key(workflows[existing_exact[key]]) = key
        /\ \A i \in 1..Len(existing_fuzzy) :
              existing_fuzzy[i][2] = _display_key(workflows[existing_fuzzy[i][1]].role,
                                                  workflows[existing_fuzzy[i][1]].client,
                                                  workflows[existing_fuzzy[i][1]].process_id)

\* The instances of the run that the scope filter does not skip.
NotSkipped ==
    {i \in 1..Len(instances) :
        ~skips_writes(hiring_only, InstanceById[instances[i]].canonical_process, hiring_process_keys)}

\* C30: the counters of a run agree: in the reports of a finished run the
\* exact, fuzzy and created counts add up to workflows_written, which is the
\* number of instances the scope filter did not skip, and the returned list
\* has as many workflows as the retained part of the prior store plus the
\* created count.
C30_CountersAgree ==
    [][Finishes =>
          LET mc == reports'.reconciliation.match_counts
          IN  /\ mc.exact + mc.fuzzy + mc.created = reports'.reconciliation.workflows_written
              /\ reports'.reconciliation.workflows_written = Cardinality(NotSkipped)
              /\ reports'.coverage.hiring_reconciliation.hiring_written_total = Cardinality(NotSkipped)
              /\ reports'.coverage.hiring_reconciliation.match_counts = mc
              /\ Len(store') = Len(scoped_workflows(store, hiring_only, hiring_process_keys))
                               + mc.created
      ]_vars

\* A scoped second run of [I7, I4] has finished on a store that held a
\* workflow: I7 hit its exact key and I4 was skipped by the scope filter, so
\* one workflow was written of two instances counted, and none was created.
C30_Witness ==
    /\ pc = "idle"
    /\ runs = 2
    /\ hiring_only
    /\ instances = <<"I7", "I4">>
    /\ reports.coverage.global.incoming_total = 2
    /\ reports.reconciliation.match_counts = [exact |-> 1, fuzzy |-> 0, created |-> 0]
    /\ reports.reconciliation.workflows_written = 1
    /\ Len(store) = 1

(***************************************************************************)
(* Properties of the engine on instances with missing fields.              *)
(***************************************************************************)

\* The last iteration was on a sparse instance that lacks one of the fields.
LastLacks(names) == iter.instance \in SparseIds /\ AbsentOf(iter.instance) \cap names # {}

\* What the last iteration derived from the fields that are there, and the
\* null, "unknown" or no-match it derived from those that are not.
DegradesLocally ==
    /\ LastLacks({"evidence"}) => iter.evidence_ids = <<>>
    /\ LastLacks({"state", "step"}) => iter.current_step_id = None
    /\ LastLacks({"canonical_process"}) =>
          /\ iter.definition_pid = None
          /\ iter.current_step_id = None
          /\ hiring_only => iter.skipped
    /\ LastLacks({"canonical_process", "canonical_client", "canonical_role"}) =>
          /\ iter.exact_key = NoKey
          /\ iter.match_type # "exact"
    /\ (HasWritten /\ iter.instance \in SparseIds) =>
          /\ LastLacks({"health"}) => LastWritten.observability.health = "unknown"
          /\ LastLacks({"state", "confidence"}) => LastWritten.observability.confidence = None
          /\ (LastLacks({"state", "timestamp"}) /\ iter.match_type = "created")
                => LastWritten.observability.last_updated_at = None
          /\ LastLacks({"canonical_process"}) =>
                /\ LastWritten.process_id = "unknown"
                /\ LastWritten.phase_id = "unknown"
                /\ LastWritten.steps = NoList
          /\ (LastLacks({"canonical_role"}) /\ LastLacks({"raw"})) => LastWritten.role = None
          /\ (LastLacks({"canonical_client"}) /\ LastLacks({"raw"})) => LastWritten.client = None
          /\ LastWritten.observability.source_instance_key = LastInstance.instance_key

\* C23: no run raises because fields of an instance are absent or null: a
\* run raises only on an instance whose evidence list has a malformed entry;
\* every other run goes through the instance, counts it in the coverage
\* totals and ends with a report over all its instances, and the values
\* derived from the missing fields are null, "unknown" or no match.
C23_MissingFieldsNeverRaise ==
    /\ pc = "raised" => instances[pos] \in MalformedIds
    /\ (pc = "running" /\ pos <= Len(instances) /\ instances[pos] \notin MalformedIds)
          => ~extract_raises(CurrentInstance)
    /\ pc = "running" => counters.total = Len(instances)
    /\ (pc = "running" /\ pos > Len(instances)) =>
          counters.role_detected + counters.role_missing = Len(instances)
    /\ (pc = "idle" /\ runs > 0) => reports.coverage.global.incoming_total = Len(instances)
    /\ DegradesLocally

\* The second run has finished on I1 without canonical_client, state,
\* evidence and health: it was counted, matched by similarity to the stored
\* workflow of I1, and written with health "unknown" and no confidence.
C23_Witness ==
    /\ pc = "idle"
    /\ runs = 2
    /\ instances = <<SparseId({"canonical_client", "state", "evidence", "health"})>>
    /\ reports.coverage.global.incoming_total = 1
    /\ reports.coverage.global.canonical_client_pct = 0
    /\ reports.coverage.global.health_known_pct = 0
    /\ reports.reconciliation.match_counts = [exact |-> 0, fuzzy |-> 1, created |-> 0]
    /\ Len(store) = 1
    /\ store[1].observability.health = "unknown"
    /\ store[1].observability.confidence = None

====
